---- MODULE Spec2Model ----
(***************************************************************************)
(* pwcli: the vault persistence and authentication engine.                 *)
(*   src/src/crypto.js     encryptJson / decryptJson / secureWipe          *)
(*   src/src/ratelimit.js  PersistentRateLimiter                           *)
(*   src/src/vault.js      AuditLogger, createVault, loadVault, saveVault, *)
(*                         moveVault                                       *)
(* Values of the JavaScript program are tagged records: a string is        *)
(* [ty |-> "string", ...], undefined is [ty |-> "undefined"].  A Buffer is *)
(* [id, len, mods]: the len first bytes of the byte string named by the    *)
(* term id, with the bytes at the positions in mods changed.               *)
(***************************************************************************)
EXTENDS Integers, Sequences, FiniteSets, TLC

VARIABLES
    now,          \* Date.now(), in ms
    fs,           \* the vault files: path -> file
    attemptsFile, \* os.tmpdir()/.pwcli-attempts
    auditFile,    \* ~/.pwcli-audit.json, the array of records
    lockedBy,     \* proper-lockfile: path -> the process holding path.lock, or NoProc
    activeLocks,  \* process -> the set of tracked locks (vault.js activeLocks)
    pc,           \* process -> where it is in its operation
    loc,          \* process -> the local variables of its operation
    last,         \* what the last completed call did (calls made, outcome)
    hist,         \* history of the unlock attempts (for the claims)
    cx            \* the envelope under test (seal / tamper / open)

vars == <<now, fs, attemptsFile, auditFile, lockedBy, activeLocks, pc, loc, last, hist, cx>>

-----------------------------------------------------------------------------
(* Bounds of the model *)

Epoch == 1000           \* Date.now() when the model starts
MaxNow == 17000         \* no call starts after this instant
TickMs == 500           \* the time that passes between two calls, per tick
KdfMs == 500            \* the time one scrypt key derivation takes
MaxTamper == 2          \* changes made to one envelope before it is opened
NumRand == 2            \* outcomes of one crypto.randomBytes draw
MaxFails == 11          \* failed opens in a row the model follows
MaxLogs == 2            \* no call starts once the audit file holds this many records
MaxPortLogs == 4        \* the same, where exports and imports are the calls
MaxModesCalls == 1      \* key derivations after which no call starts, in SpecModes
MaxOpenTicks == 3       \* ticks of the clock in SpecOpen
MaxStampTicks == 1      \* ticks of the clock in SpecStamp
MaxSeals == 2           \* calls that seal, in SpecSeal
MaxRuns == 2            \* runs of one character that make up an entry key

(* Program constants *)

SaltLen == 16
IvLen == 12
KeyLen == 32
GcmTagLen == 16
minDelayMs == 1000
maxFailedAttempts == 10
lockoutDuration == 300000
msPerMinute == 60000

-----------------------------------------------------------------------------
(* JavaScript values *)

Undefined == [ty |-> "undefined"]
Str(s) == [ty |-> "string", s |-> s]
IsString(v) == v.ty = "string"

\* new Date(t).toISOString(): the string that renders the instant t
ToISOString(t) == [ty |-> "string", iso |-> t]

Chars(n) == CHOOSE s \in {"0", "1", "2", "3", "4", "5", "6", "7", "8", "9"} : s = ToString(n)

\* the decimal digits of a natural number, as `${n}` renders it
RECURSIVE Decimal(_)
Decimal(n) == IF n < 10 THEN <<Chars(n)>> ELSE Decimal(n \div 10) \o <<Chars(n % 10)>>

\* String.prototype.includes: needle occurs in hay as a contiguous run (case-sensitive)
Includes(hay, needle) ==
    \E i \in 0..(Len(hay) - Len(needle)) :
        \A j \in 1..Len(needle) : hay[i + j] = needle[j]

\* Math.ceil(a / b) for naturals a, b > 0
CeilDiv(a, b) == (a + b - 1) \div b

-----------------------------------------------------------------------------
(* Buffers and the primitives of node:crypto used by crypto.js *)

Buf(id, n) == [id |-> id, len |-> n, mods |-> {}]
EmptyBuffer == Buf([t |-> "empty"], 0)

\* crypto.randomBytes(n), r naming the outcome of the draw
RandomBytes(n, r) == Buf([t |-> "random", r |-> r], n)

\* the first n bytes of a buffer
Truncate(buf, n) == [buf EXCEPT !.len = n, !.mods = @ \cap (1..n)]

\* the buffer with one bit of byte i flipped
FlipByte(buf, i) == [buf EXCEPT !.mods = IF i \in @ THEN @ \ {i} ELSE @ \cup {i}]

\* crypto.scrypt(password, salt, 32, ...): a function of (password, salt), one-to-one
DeriveKey(password, salt) == Buf([t |-> "scrypt", pw |-> password, salt |-> salt], KeyLen)

\* cipher.update(plaintext) ++ cipher.final() of aes-256-gcm under (key, iv)
GcmEncrypt(key, iv, plaintext) ==
    Buf([t |-> "gcm-ctr", key |-> key, iv |-> iv, pt |-> plaintext], plaintext.len)

\* cipher.getAuthTag(): the 16-byte tag over (key, iv, ciphertext)
GcmTag(key, iv, data) ==
    Buf([t |-> "gcm-tag", key |-> key, iv |-> iv, data |-> data], GcmTagLen)

\* decipher.update(data): the counter-mode keystream of (key, iv) applied to data
GcmDecrypt(key, iv, data) ==
    IF data.id.t = "gcm-ctr" /\ data.id.key = key /\ data.id.iv = iv
    THEN [id |-> data.id.pt.id, len |-> data.len, mods |-> data.mods]
    ELSE Buf([t |-> "noise", key |-> key, iv |-> iv, data |-> data], data.len)

\* decipher.setAuthTag(tag) with no authTagLength option accepts these tag lengths
ValidGcmTagLengths == {4, 8, 12, 13, 14, 15, 16}

\* decipher.final(): the tag.len bytes given equal the first tag.len bytes of the tag
GcmTagValid(key, iv, data, tag) == tag = Truncate(GcmTag(key, iv, data), tag.len)

-----------------------------------------------------------------------------
(* base64: buf.toString('base64') and Buffer.from(s, 'base64').  A base64   *)
(* string is a sequence of characters; the run of digits that encodes a     *)
(* buffer is one element [c |-> "digits", of |-> buffer].                   *)

PadCount(n) == (3 - (n % 3)) % 3
DigitCount(n) == CeilDiv(4 * n, 3)

Base64Str(chars) == [ty |-> "string", b64 |-> chars]

ToBase64(buf) ==
    Base64Str(<<[c |-> "digits", of |-> buf]>> \o [i \in 1..PadCount(buf.len) |-> [c |-> "="]])

\* the decoder skips characters outside the alphabet (white space) and stops at '='
RECURSIVE B64Runs(_)
B64Runs(chars) ==
    IF chars = <<>> THEN <<>>
    ELSE IF Head(chars).c = "=" THEN <<>>
    ELSE IF Head(chars).c = "digits" THEN <<Head(chars).of>> \o B64Runs(Tail(chars))
    ELSE B64Runs(Tail(chars))

FromBase64(v) ==
    LET runs == B64Runs(v.b64) IN IF runs = <<>> THEN EmptyBuffer ELSE runs[1]

RECURSIVE B64Length(_)
B64Length(chars) ==
    IF chars = <<>> THEN 0
    ELSE (IF Head(chars).c = "digits" THEN DigitCount(Head(chars).of.len) ELSE 1)
         + B64Length(Tail(chars))

-----------------------------------------------------------------------------
(* JSON.  An object is [ty |-> "object", obj |-> name -> value]; its text   *)
(* holds the members whose value is not undefined, strings quoted.          *)

Obj(f) == [ty |-> "object", obj |-> f]
Null == [ty |-> "null"]

\* o[name]
Get(o, name) == IF name \in DOMAIN o.obj THEN o.obj[name] ELSE Undefined

RECURSIVE JsonStringify(_)
JsonStringify(v) ==
    IF v.ty = "object"
    THEN [j |-> "object",
          m |-> [n \in {k \in DOMAIN v.obj : v.obj[k].ty # "undefined"} |->
                    JsonStringify(v.obj[n])]]
    ELSE IF v.ty = "string" THEN [j |-> "string", q |-> v]
    ELSE [j |-> "null"]

\* text that is not JSON, n characters long
InvalidText(n) == [j |-> "invalid", n |-> n]

\* JSON.parse of a text that is JSON
RECURSIVE JsonParse(_)
JsonParse(text) ==
    IF text.j = "object" THEN Obj([n \in DOMAIN text.m |-> JsonParse(text.m[n])])
    ELSE IF text.j = "string" THEN text.q
    ELSE Null

IsoLen == 24

StringLength(v) ==
    IF "b64" \in DOMAIN v THEN B64Length(v.b64)
    ELSE IF "iso" \in DOMAIN v THEN IsoLen
    ELSE Len(v.s)

\* the number of characters of JSON.stringify(value, null, indent) at nesting depth d;
\* MembersLength adds up the members named in `names`, each on its line when indented
RECURSIVE TextLength(_, _, _), MembersLength(_, _, _, _)
TextLength(text, indent, d) ==
    IF text.j = "invalid" THEN text.n
    ELSE IF text.j = "null" THEN 4
    ELSE IF text.j = "string" THEN StringLength(text.q) + 2
    ELSE LET n == Cardinality(DOMAIN text.m)
         IN IF n = 0 THEN 2
            ELSE 2 + MembersLength(text.m, DOMAIN text.m, indent, d) + (n - 1)
                 + (IF indent = 0 THEN 0 ELSE 1 + indent * d)

MembersLength(m, names, indent, d) ==
    IF names = {} THEN 0
    ELSE LET k == CHOOSE name \in names : TRUE
         IN (IF indent = 0 THEN 0 ELSE 1 + indent * (d + 1))
            + Len(k) + 2 + (IF indent = 0 THEN 1 ELSE 2) + TextLength(m[k], indent, d + 1)
            + MembersLength(m, names \ {k}, indent, d)

\* Buffer.from(string, 'utf8') and buffer.toString('utf8')
Utf8(text) == Buf([t |-> "utf8", text |-> text], TextLength(text, 0, 0))

ToUtf8String(buf) ==
    IF buf.id.t = "utf8" /\ buf.mods = {} /\ buf.len = TextLength(buf.id.text, 0, 0)
    THEN buf.id.text
    ELSE InvalidText(buf.len)


-----------------------------------------------------------------------------
(* Errors.  A message is the sequence of its characters. *)

\* 'Decryption failed - invalid password or corrupted vault'
MsgDecryptionFailed ==
    <<"D", "e", "c", "r", "y", "p", "t", "i", "o", "n", " ", "f", "a", "i", "l", "e", "d", " ",
      "-", " ", "i", "n", "v", "a", "l", "i", "d", " ", "p", "a", "s", "s", "w", "o", "r", "d",
      " ", "o", "r", " ", "c", "o", "r", "r", "u", "p", "t", "e", "d", " ", "v", "a", "u", "l",
      "t">>

\* 'Too many failed attempts. Locked out for '
MsgLockedOutPrefix ==
    <<"T", "o", "o", " ", "m", "a", "n", "y", " ", "f", "a", "i", "l", "e", "d", " ", "a", "t",
      "t", "e", "m", "p", "t", "s", ".", " ", "L", "o", "c", "k", "e", "d", " ", "o", "u", "t",
      " ", "f", "o", "r", " ">>

\* ' more minutes.'
MsgLockedOutSuffix ==
    <<" ", "m", "o", "r", "e", " ", "m", "i", "n", "u", "t", "e", "s", ".">>

\* "EACCES: permission denied, open '<attemptsFile>'"
MsgAccessDenied ==
    <<"E", "A", "C", "C", "E", "S", ":", " ", "p", "e", "r", "m", "i", "s", "s", "i", "o", "n",
      " ", "d", "e", "n", "i", "e", "d">>

\* what JSON.parse reports for the text `locked out` where the message quotes the text
\* (V8 from version 10.5 on): `Unexpected token 'l', "locked out" is not valid JSON`
MsgJsonQuotedText ==
    <<"U", "n", "e", "x", "p", "e", "c", "t", "e", "d", " ", "t", "o", "k", "e", "n", " ", "'",
      "l", "'", ",", " ", "\"", "l", "o", "c", "k", "e", "d", " ", "o", "u", "t", "\"", " ",
      "i", "s", " ", "n", "o", "t", " ", "v", "a", "l", "i", "d", " ", "J", "S", "O", "N">>

\* what it reports for the same text where the message names the position only
\* `Unexpected token l in JSON at position 0`
MsgJsonTokenAt ==
    <<"U", "n", "e", "x", "p", "e", "c", "t", "e", "d", " ", "t", "o", "k", "e", "n", " ", "l",
      " ", "i", "n", " ", "J", "S", "O", "N", " ", "a", "t", " ", "p", "o", "s", "i", "t", "i",
      "o", "n", " ", "0">>

\* 'locked out'
NeedleLockedOut ==
    <<"l", "o", "c", "k", "e", "d", " ", "o", "u", "t">>

\* 'Vault file does not exist'
MsgNoVault ==
    <<"V", "a", "u", "l", "t", " ", "f", "i", "l", "e", " ", "d", "o", "e", "s", " ", "n", "o",
      "t", " ", "e", "x", "i", "s", "t">>

\* 'Unexpected end of JSON input'
MsgJsonSyntax ==
    <<"U", "n", "e", "x", "p", "e", "c", "t", "e", "d", " ", "e", "n", "d", " ", "o", "f", " ",
      "J", "S", "O", "N", " ", "i", "n", "p", "u", "t">>

\* 'Failed to acquire lock on vault file'
MsgLockFailed ==
    <<"F", "a", "i", "l", "e", "d", " ", "t", "o", " ", "a", "c", "q", "u", "i", "r", "e", " ",
      "l", "o", "c", "k", " ", "o", "n", " ", "v", "a", "u", "l", "t", " ", "f", "i", "l", "e">>

\* 'Destination file already exists'
MsgDestExists ==
    <<"D", "e", "s", "t", "i", "n", "a", "t", "i", "o", "n", " ", "f", "i", "l", "e", " ", "a",
      "l", "r", "e", "a", "d", "y", " ", "e", "x", "i", "s", "t", "s">>

\* 'File size mismatch after copy'
MsgSizeMismatch ==
    <<"F", "i", "l", "e", " ", "s", "i", "z", "e", " ", "m", "i", "s", "m", "a", "t", "c", "h",
      " ", "a", "f", "t", "e", "r", " ", "c", "o", "p", "y">>

\* 'Failed to move vault - rolled back: '
MsgRolledBackPrefix ==
    <<"F", "a", "i", "l", "e", "d", " ", "t", "o", " ", "m", "o", "v", "e", " ", "v", "a", "u",
      "l", "t", " ", "-", " ", "r", "o", "l", "l", "e", "d", " ", "b", "a", "c", "k", ":", " ">>

\* 'EPERM: operation not permitted, unlink'
MsgUnlinkFailed ==
    <<"E", "P", "E", "R", "M", ":", " ", "o", "p", "e", "r", "a", "t", "i", "o", "n", " ", "n",
      "o", "t", " ", "p", "e", "r", "m", "i", "t", "t", "e", "d", ",", " ", "u", "n", "l", "i",
      "n", "k">>

\* 'Destination directory is not writable: EACCES: permission denied, access'
MsgDirNotWritable ==
    <<"D", "e", "s", "t", "i", "n", "a", "t", "i", "o", "n", " ", "d", "i", "r", "e", "c", "t",
      "o", "r", "y", " ", "i", "s", " ", "n", "o", "t", " ", "w", "r", "i", "t", "a", "b", "l",
      "e", ":", " ", "E", "A", "C", "C", "E", "S", ":", " ", "p", "e", "r", "m", "i", "s", "s",
      "i", "o", "n", " ", "d", "e", "n", "i", "e", "d", ",", " ", "a", "c", "c", "e", "s", "s">>

\* `Failed to export vault: ${error.message}`
MsgExportFailedPrefix ==
    <<"F", "a", "i", "l", "e", "d", " ", "t", "o", " ", "e", "x", "p", "o", "r", "t", " ",
      "v", "a", "u", "l", "t", ":", " ">>

\* `Failed to import vault: ${error.message}`
MsgImportFailedPrefix ==
    <<"F", "a", "i", "l", "e", "d", " ", "t", "o", " ", "i", "m", "p", "o", "r", "t", " ",
      "v", "a", "u", "l", "t", ":", " ">>

MsgInvalidImport ==
    <<"I", "n", "v", "a", "l", "i", "d", " ", "i", "m", "p", "o", "r", "t", " ", "f", "i",
      "l", "e", " ", "f", "o", "r", "m", "a", "t">>

MsgVaultExists ==
    <<"V", "a", "u", "l", "t", " ", "f", "i", "l", "e", " ", "a", "l", "r", "e", "a", "d",
      "y", " ", "e", "x", "i", "s", "t", "s", " ", "a", "t", " ", "d", "e", "s", "t", "i",
      "n", "a", "t", "i", "o", "n", " ", "p", "a", "t", "h">>

\* what fs.readFile reports when the file is missing
MsgNoSuchFile ==
    <<"E", "N", "O", "E", "N", "T", ":", " ", "n", "o", " ", "s", "u", "c", "h", " ", "f",
      "i", "l", "e", " ", "o", "r", " ", "d", "i", "r", "e", "c", "t", "o", "r", "y", ",",
      " ", "o", "p", "e", "n">>

\* what Buffer.from(undefined) reports
MsgWipeFailed ==
    <<"T", "h", "e", " ", "f", "i", "r", "s", "t", " ", "a", "r", "g", "u", "m", "e", "n",
      "t", " ", "m", "u", "s", "t", " ", "b", "e", " ", "o", "f", " ", "t", "y", "p", "e",
      " ", "s", "t", "r", "i", "n", "g", " ", "o", "r", " ", "a", "n", " ", "i", "n", "s",
      "t", "a", "n", "c", "e", " ", "o", "f", " ", "B", "u", "f", "f", "e", "r">>

\* what existingLogs.push reports when the parsed audit file is not an array
MsgPushFailed ==
    <<"e", "x", "i", "s", "t", "i", "n", "g", "L", "o", "g", "s", ".", "p", "u", "s", "h",
      " ", "i", "s", " ", "n", "o", "t", " ", "a", " ", "f", "u", "n", "c", "t", "i", "o",
      "n">>

\* what fs.writeFile reports when the audit file cannot be written
MsgAuditWriteFailed ==
    <<"E", "A", "C", "C", "E", "S", ":", " ", "p", "e", "r", "m", "i", "s", "s", "i", "o",
      "n", " ", "d", "e", "n", "i", "e", "d", ",", " ", "o", "p", "e", "n">>

\* `Failed to nuke vault: ${error.message}`
MsgNukeFailedPrefix ==
    <<"F", "a", "i", "l", "e", "d", " ", "t", "o", " ", "n", "u", "k", "e", " ", "v", "a", "u",
      "l", "t", ":", " ">>

\* what scrypt reports when the key cannot be derived (crypto.js:12-15 rejects with it)
MsgSealFailed ==
    <<"I", "n", "v", "a", "l", "i", "d", " ", "s", "c", "r", "y", "p", "t", " ", "p", "a", "r",
      "a", "m", "s">>

\* what fs.writeFile reports when the disk is full
MsgWriteFailed ==
    <<"E", "N", "O", "S", "P", "C", ":", " ", "n", "o", " ", "s", "p", "a", "c", "e", " ", "l",
      "e", "f", "t", " ", "o", "n", " ", "d", "e", "v", "i", "c", "e", ",", " ", "w", "r", "i",
      "t", "e">>

Err(name, message) == [name |-> name, message |-> message]
NoError == Err("none", <<>>)
Threw(e) == e.name # "none"

-----------------------------------------------------------------------------
(* crypto.js *)

SealedField(buf) == ToBase64(buf)

\* secureWipe(buffer): random bytes, then zeros
SecureWipe(buf) == Buf([t |-> "zero"], buf.len)

\* (mutant) the salt is wiped before it is encoded into the envelope
EncryptJsonSaltWipedEarly(obj, password, rs, ri) ==
    LET salt == RandomBytes(SaltLen, rs)
        iv == RandomBytes(IvLen, ri)
        key == DeriveKey(password, salt)
        plaintext == Utf8(JsonStringify(obj))
        encrypted == GcmEncrypt(key, iv, plaintext)
        authTag == GcmTag(key, iv, encrypted)
    IN Obj([kdf |-> Str("scrypt"),
            salt |-> SealedField(SecureWipe(salt)),
            iv |-> SealedField(iv),
            authTag |-> SealedField(authTag),
            data |-> SealedField(encrypted)])

\* encryptJson(obj, password), rs and ri naming the outcomes of the two randomBytes draws
EncryptJson(obj, password, rs, ri) ==
    LET salt == RandomBytes(SaltLen, rs)
        iv == RandomBytes(IvLen, ri)
        key == DeriveKey(password, salt)
        plaintext == Utf8(JsonStringify(obj))
        encrypted == GcmEncrypt(key, iv, plaintext)
        authTag == GcmTag(key, iv, encrypted)
    IN Obj([kdf |-> Str("scrypt"),
            salt |-> SealedField(salt),
            iv |-> SealedField(iv),
            authTag |-> SealedField(authTag),
            data |-> SealedField(encrypted)])

\* a buffer a call of encryptJson or decryptJson allocated: what was put into it
\* ("key", "plaintext", "decrypted" or "other") and what it holds when the call ends
Held(name, kind, atExit) == [name |-> name, kind |-> kind, atExit |-> atExit]

\* the buffers of encryptJson(obj, password) when it returns or throws; deriveKey
\* resolves if `derived` and rejects otherwise
EncryptJsonHeap(obj, password, rs, ri, derived) ==
    LET salt == RandomBytes(SaltLen, rs)
        iv == RandomBytes(IvLen, ri)
        key == DeriveKey(password, salt)
        plaintext == Utf8(JsonStringify(obj))
        encrypted == GcmEncrypt(key, iv, plaintext)
        authTag == GcmTag(key, iv, encrypted)
        outer == {Held("salt", "other", SecureWipe(salt)), Held("iv", "other", SecureWipe(iv))}
    IN IF ~derived THEN outer
       ELSE outer \cup {Held("key", "key", SecureWipe(key)),
                        Held("plaintext", "plaintext", SecureWipe(plaintext)),
                        Held("cipher.update", "other", encrypted),
                        Held("cipher.final", "other", EmptyBuffer),
                        Held("encrypted", "other", encrypted),
                        Held("authTag", "other", authTag)}

\* the buffers of decryptJson(payload, password) when it returns or throws
DecryptJsonHeap(payload, password, derived) ==
    IF payload.ty # "object" THEN {}
    ELSE IF \E f \in {"salt", "iv", "authTag", "data"} : ~IsString(Get(payload, f))
    THEN {Held(f, "other", FromBase64(Get(payload, f))) :
             f \in {g \in {"salt", "iv", "authTag", "data"} :
                       \A h \in {"salt", "iv", "authTag", "data"} :
                          ~IsString(Get(payload, h))
                          => <<g, h>> \in {<<"salt", "iv">>, <<"salt", "authTag">>,
                                           <<"salt", "data">>, <<"iv", "authTag">>,
                                           <<"iv", "data">>, <<"authTag", "data">>}}}
    ELSE LET salt == FromBase64(Get(payload, "salt"))
             iv == FromBase64(Get(payload, "iv"))
             authTag == FromBase64(Get(payload, "authTag"))
             data == FromBase64(Get(payload, "data"))
             key == DeriveKey(password, salt)
             decrypted == GcmDecrypt(key, iv, data)
             parsed == {Held("salt", "other", salt), Held("iv", "other", iv),
                        Held("authTag", "other", SecureWipe(authTag)),
                        Held("data", "other", SecureWipe(data))}
             keyed == parsed \cup {Held("key", "key", SecureWipe(key))}
             updated == keyed \cup {Held("decipher.update", "decrypted", decrypted)}
         IN IF ~derived THEN parsed
            ELSE IF iv.len = 0 \/ authTag.len \notin ValidGcmTagLengths THEN keyed
            ELSE IF ~GcmTagValid(key, iv, data, authTag) THEN updated
            ELSE updated \cup {Held("decipher.final", "other", EmptyBuffer),
                               Held("decrypted", "decrypted", SecureWipe(decrypted))}

Failure(diag) ==
    [ok |-> FALSE, value |-> Undefined, error |-> Err("Error", MsgDecryptionFailed), diag |-> diag]
Success(value) == [ok |-> TRUE, value |-> value, error |-> NoError, diag |-> "none"]

\* what the innermost try block of decryptJson does once key, iv and tag are set
DecipherAndParse(key, iv, authTag, data) ==
    IF ~GcmTagValid(key, iv, data, authTag)
    THEN Failure("unable to authenticate data")
    ELSE LET text == ToUtf8String(GcmDecrypt(key, iv, data))
         IN IF text.j = "invalid" THEN Failure("JSON.parse") ELSE Success(JsonParse(text))

\* decryptJson(payload, password)
DecryptJson(payload, password) ==
    IF payload.ty # "object" THEN Failure("TypeError")
    ELSE IF \E f \in {"salt", "iv", "authTag", "data"} : ~IsString(Get(payload, f))
    THEN Failure("TypeError")
    ELSE LET salt == FromBase64(Get(payload, "salt"))
             iv == FromBase64(Get(payload, "iv"))
             authTag == FromBase64(Get(payload, "authTag"))
             data == FromBase64(Get(payload, "data"))
             key == DeriveKey(password, salt)
         IN IF iv.len = 0 THEN Failure("Invalid initialization vector")
            ELSE IF authTag.len \notin ValidGcmTagLengths
            THEN Failure("Invalid authentication tag length")
            ELSE DecipherAndParse(key, iv, authTag, data)

-----------------------------------------------------------------------------
(* Files *)

NoFile == [kind |-> "none"]
OwnerOnly == 384    \* 0o600
WorldReadable == 420    \* 0o644, what a file made without a mode gets under umask 022

File(text, mode) == [kind |-> "file", text |-> text, pad |-> 0, mode |-> mode]
Exists(file) == file.kind # "none"

\* (mutant) a write leaves a file that exists as it is
WriteFileKept(file, text, mode) == IF Exists(file) THEN file ELSE File(text, mode)

\* fs.writeFile(path, text, {mode}): the mode is used only when the file is created
WriteFile(file, text, mode) ==
    IF Exists(file) THEN [file EXCEPT !.text = text, !.pad = 0] ELSE File(text, mode)

\* fs.stat(path).size: the text and the white space after it
Size(file) == TextLength(file.text, 2, 0) + file.pad

-----------------------------------------------------------------------------
(* ratelimit.js: PersistentRateLimiter *)

\* `Too many failed attempts. Locked out for ${Math.ceil(waitTime / 60000)} more minutes.`
LockedOutMessage(waitTime) ==
    MsgLockedOutPrefix \o Decimal(CeilDiv(waitTime, msPerMinute)) \o MsgLockedOutSuffix

\* attempts files getAttempts() throws on: fs.readFile fails for a reason other than
\* ENOENT, or JSON.parse fails, with the message kept in the file record
UnreadableAttempts == {"unreadable", "corrupt"}

AttemptsReadError(file) ==
    IF file.kind = "unreadable" THEN Err("Error", MsgAccessDenied)
    ELSE Err("SyntaxError", file.message)

\* getAttempts(): the parsed file, or the defaults when there is none
GetAttempts(file) ==
    IF Exists(file) THEN file.data
    ELSE [lastAttempt |-> 0, failedAttempts |-> 0, lockedUntil |-> 0]

\* saveAttempts(attempts)
SaveAttempts(file, attempts) ==
    IF Exists(file) THEN [file EXCEPT !.data = attempts]
    ELSE [kind |-> "file", data |-> attempts, mode |-> OwnerOnly]

\* the catch block of waitIfNeeded: rethrow only an error whose message includes 'locked out'
WaitIfNeededCatch(error) ==
    IF Includes(error.message, NeedleLockedOut) THEN error ELSE NoError

\* waitIfNeeded() called at time t: the error it throws (or none) and the time it returns
WaitIfNeeded(file, t) ==
    LET attempts == GetAttempts(file)
    IN IF file.kind \in UnreadableAttempts
       THEN [error |-> WaitIfNeededCatch(AttemptsReadError(file)), t |-> t]
       ELSE IF attempts.lockedUntil # 0 /\ t < attempts.lockedUntil
       THEN [error |-> WaitIfNeededCatch(
                           Err("Error", LockedOutMessage(attempts.lockedUntil - t))),
             t |-> t]
       ELSE IF attempts.lastAttempt # 0 /\ (t - attempts.lastAttempt) < minDelayMs
       THEN [error |-> NoError, t |-> t + (minDelayMs - (t - attempts.lastAttempt))]
       ELSE [error |-> NoError, t |-> t]

\* (mutant) the lockout is set only once the count is above the threshold
FailureRecordedAboveThreshold(attempts, t) ==
    LET decayed == IF attempts.lastAttempt # 0 /\ (t - attempts.lastAttempt) > minDelayMs * 2
                   THEN [attempts EXCEPT !.failedAttempts = 0]
                   ELSE attempts
        counted == [decayed EXCEPT !.lastAttempt = t, !.failedAttempts = @ + 1]
    IN IF counted.failedAttempts > maxFailedAttempts
       THEN [counted EXCEPT !.lockedUntil = t + lockoutDuration]
       ELSE counted

\* (mutant) the count is never reset, however long ago the last attempt was
FailureRecordedNoDecay(attempts, t) ==
    LET counted == [attempts EXCEPT !.lastAttempt = t, !.failedAttempts = @ + 1]
    IN IF counted.failedAttempts >= maxFailedAttempts
       THEN [counted EXCEPT !.lockedUntil = t + lockoutDuration]
       ELSE counted

\* the attempts record recordFailure() saves when called at time t
FailureRecorded(attempts, t) ==
    LET decayed == IF attempts.lastAttempt # 0 /\ (t - attempts.lastAttempt) > minDelayMs * 2
                   THEN [attempts EXCEPT !.failedAttempts = 0]
                   ELSE attempts
        counted == [decayed EXCEPT !.lastAttempt = t, !.failedAttempts = @ + 1]
    IN IF counted.failedAttempts >= maxFailedAttempts
       THEN [counted EXCEPT !.lockedUntil = t + lockoutDuration]
       ELSE counted

\* recordFailure() called at time t
\* (its body is one try block: a getAttempts or saveAttempts that throws is warned about
\* and the file stays as it is)
RecordFailure(file, t) ==
    IF file.kind \in UnreadableAttempts \cup {"readonly"} THEN file
    ELSE SaveAttempts(file, FailureRecorded(GetAttempts(file), t))

\* (mutant) reset() leaves the attempts file in place
ResetAttemptsKept(file) == file

\* reset(): unlink the attempts file
ResetAttempts(file) == NoFile

-----------------------------------------------------------------------------
(* vault.js: AuditLogger *)

maxEntries == 1000

LogEntry(t, action, details, result, pid) ==
    [timestamp |-> ToISOString(t), action |-> action, details |-> details,
     result |-> result, pid |-> pid]

\* the number of records the audit file holds
AuditLen(file) == IF file.kind = "file" THEN Len(file.logs) ELSE 0

\* (mutant) the first n elements are kept
FirstN(logs, n) == IF Len(logs) <= n THEN logs ELSE SubSeq(logs, 1, n)

\* the last n elements of a sequence: logs.slice(-n)
LastN(logs, n) == IF Len(logs) <= n THEN logs ELSE SubSeq(logs, Len(logs) - n + 1, Len(logs))

\* the kinds of audit file that log cannot use: the read fails with an error other than
\* ENOENT, the text is not JSON, the JSON is not an array, or the file cannot be written
UnusableAudit == {"unreadable", "corrupt", "nonarray", "readonly"}

\* the error raised inside the outer try block of log: the inner catch returns for a file
\* that cannot be read or parsed, push throws on what is not an array, writeFile throws
LogTryError(file) ==
    IF file.kind = "nonarray" THEN Err("TypeError", MsgPushFailed)
    ELSE IF file.kind = "readonly" THEN Err("Error", MsgAuditWriteFailed)
    ELSE NoError

\* (mutant) the outer catch block throws the error on
LogCatchRethrows(error) == error

\* the outer catch block of log: console.warn, and log returns
LogCatch(error) == NoError

\* the error log throws to its caller
LogThrows(file) == LogCatch(LogTryError(file))

\* the outcome of a call whose last step awaited log on the audit file `file`
AfterLog(out, file) ==
    IF Threw(LogThrows(file))
    THEN [out EXCEPT !.error = LogThrows(file), !.value = Undefined,
                     !.calls = @ \o <<"throw:log">>]
    ELSE out

\* auditLogger.log(action, details, result) at time t by process pid
AuditLog(file, t, action, details, result, pid) ==
    IF file.kind \in UnusableAudit THEN file
    ELSE LET existingLogs == IF Exists(file) THEN file.logs ELSE <<>>
             pushed == Append(existingLogs, LogEntry(t, action, details, result, pid))
             kept == IF Len(pushed) > maxEntries THEN LastN(pushed, maxEntries) ELSE pushed
         IN IF Exists(file) THEN [file EXCEPT !.logs = kept]
            ELSE [kind |-> "file", logs |-> kept, mode |-> OwnerOnly]


-----------------------------------------------------------------------------
(* vault.js.  A call works on the world w = [fs, att, aud, t]: the vault    *)
(* files, the attempts file, the audit file and the clock.  It returns the  *)
(* world it leaves, the error it throws (or none), its value, and the calls *)
(* it made, in order.                                                       *)

World(f, att, aud, t) == [fs |-> f, att |-> att, aud |-> aud, t |-> t]

Outcome(w, error, value, calls) == [w |-> w, error |-> error, value |-> value, calls |-> calls]

\* the time decryptJson takes: scrypt runs unless reading the payload already failed
DecryptTime(d) == IF d.diag = "TypeError" THEN 0 ELSE KdfMs

\* the try block of loadVault, once the file was read and parsed into `encrypted`
LoadVaultDecrypt(w, pid, path, password, encrypted, calls) ==
    LET d == DecryptJson(encrypted, password)
        t2 == w.t + DecryptTime(d)
    IN IF d.ok
       THEN AfterLog(
                Outcome([w EXCEPT !.t = t2,
                                  !.att = ResetAttempts(w.att),
                                  !.aud = AuditLog(w.aud, t2, "vault_access",
                                                   <<"Successfully accessed", path>>,
                                                   "success", pid)],
                        NoError, d.value,
                        calls \o <<"decryptJson", "reset", "log:success">>),
                w.aud)
       ELSE AfterLog(
                Outcome([w EXCEPT !.t = t2,
                                  !.att = RecordFailure(w.att, t2),
                                  !.aud = AuditLog(w.aud, t2, "vault_access",
                                                   <<"Failed to access", path>>,
                                                   "failure", pid)],
                        d.error, Undefined,
                        calls \o <<"decryptJson", "recordFailure", "log:failure">>),
                w.aud)

\* loadVault(vaultPath, password) by process pid
\* loadVault after waitIfNeeded has returned: vaultExists, readFile, JSON.parse, decryptJson
LoadVaultRead(w, pid, path, password) ==
    IF ~Exists(w.fs[path])
    THEN Outcome(w, Err("Error", MsgNoVault), Undefined, <<"waitIfNeeded", "access">>)
    ELSE IF w.fs[path].text.j = "invalid"
    THEN Outcome(w, Err("SyntaxError", MsgJsonSyntax), Undefined,
                 <<"waitIfNeeded", "access", "readFile">>)
    ELSE LoadVaultDecrypt(w, pid, path, password, JsonParse(w.fs[path].text),
                          <<"waitIfNeeded", "access", "readFile">>)

LoadVault(w, pid, path, password) ==
    LET wait == WaitIfNeeded(w.att, w.t)
        w1 == [w EXCEPT !.t = wait.t]
    IN IF Threw(wait.error)
       THEN Outcome(w1, wait.error, Undefined, <<"waitIfNeeded">>)
       ELSE LoadVaultRead(w1, pid, path, password)

\* (mutant) every seal uses one and the same nonce
SealedTextStaticIv(obj, password, rs, ri) == JsonStringify(EncryptJson(obj, password, rs, 1))

\* the text saveVault and createVault write: JSON.stringify(encrypted, null, 2)
SealedText(obj, password, rs, ri) == JsonStringify(EncryptJson(obj, password, rs, ri))

EmptyVault(t) ==
    Obj([entries |-> Obj(<<>>), createdAt |-> ToISOString(t), updatedAt |-> ToISOString(t)])

\* createVault(vaultPath, password) by process pid
CreateVault(w, pid, path, password, rs, ri) ==
    LET t2 == w.t + KdfMs
    IN AfterLog(
           Outcome([w EXCEPT !.t = t2,
                             !.fs[path] = WriteFile(@, SealedText(EmptyVault(w.t), password,
                                                                  rs, ri),
                                                    OwnerOnly),
                             !.aud = AuditLog(w.aud, t2, "vault_create",
                                              <<"Created vault at", path>>, "success", pid)],
                   NoError, Undefined, <<"encryptJson", "writeFile", "log:success">>),
           w.aud)

\* vault.updatedAt = new Date().toISOString()
StampUpdatedAt(vault, t) == [vault EXCEPT !.obj.updatedAt = ToISOString(t)]

\* saveVault(vaultPath, password, vault) by a process that no other process contends with
SaveVault(w, pid, path, password, vault, rs, ri) ==
    LET stamped == StampUpdatedAt(vault, w.t)
        locked == Exists(w.fs[path])
    IN Outcome([w EXCEPT !.t = w.t + KdfMs,
                         !.fs[path] = WriteFile(@, SealedText(stamped, password, rs, ri),
                                                OwnerOnly)],
               NoError, stamped,
               (IF locked THEN <<"lock", "trackLock">> ELSE <<"lock:ENOENT">>)
                   \o <<"encryptJson", "writeFile">>
                   \o (IF locked THEN <<"untrackLock", "release">> ELSE <<>>))


-----------------------------------------------------------------------------
(* vault.js: exportVault and importVault *)

\* the error the catch block of exportVault or importVault throws for the error caught
Wrapped(prefix, error) == Err("Error", prefix \o error.message)

\* (mutant) the export holds no entries
ExportDataEmpty(vault, t, path) ==
    Obj([version |-> Str("1.0"), exportedAt |-> ToISOString(t),
         sourceVault |-> Str(path), entries |-> Obj(<<>>)])

\* exportData: { version, exportedAt, sourceVault, entries: vault.entries }
ExportData(vault, t, path) ==
    Obj([version |-> Str("1.0"), exportedAt |-> ToISOString(t),
         sourceVault |-> Str(path), entries |-> Get(vault, "entries")])

\* exportVault(vaultPath, password, exportPath) by process pid
ExportVault(w, pid, path, password, exportPath) ==
    LET loaded == LoadVault(w, pid, path, password)
        failed(v, error, calls) ==
            AfterLog(
                Outcome([v EXCEPT !.aud = AuditLog(@, v.t, "vault_export",
                                                   <<"Failed to export vault to", exportPath>>,
                                                   "failure", pid)],
                        Wrapped(MsgExportFailedPrefix, error), Undefined,
                        calls \o <<"log:failure">>),
                v.aud)
        written == [loaded.w EXCEPT
                       !.fs[exportPath] =
                           WriteFile(@, JsonStringify(ExportData(loaded.value, loaded.w.t, path)),
                                     OwnerOnly)]
    IN IF Threw(loaded.error) THEN failed(loaded.w, loaded.error, loaded.calls)
       ELSE IF Get(loaded.value, "entries").ty = "undefined"
       THEN failed(written, Err("TypeError", MsgWipeFailed), loaded.calls \o <<"writeFile">>)
       ELSE AfterLog(
                Outcome([written EXCEPT !.aud = AuditLog(@, written.t, "vault_export",
                                                         <<"Exported vault to", exportPath>>,
                                                         "success", pid)],
                        NoError, Undefined, loaded.calls \o <<"writeFile", "log:success">>),
                written.aud)

\* !importData.entries || typeof importData.entries !== 'object'
InvalidImport(importData) ==
    \/ importData.ty # "object"
    \/ Get(importData, "entries").ty # "object"

\* (mutant) the destination is never taken
DestinationFree(f, path, overwrite) == FALSE

\* await vaultExists(vaultPath) && !overwrite
DestinationTaken(f, path, overwrite) == Exists(f[path]) /\ ~overwrite

\* the vault importVault builds from the entries of the import file
ImportedVault(entries, t, importPath) ==
    Obj([entries |-> entries, createdAt |-> ToISOString(t), updatedAt |-> ToISOString(t),
         importedAt |-> ToISOString(t), importSource |-> Str(importPath)])

\* importVault(importPath, vaultPath, password, { overwrite }) by process pid; rs and ri name the draws of
\* the seal in createVault, rs2 and ri2 those of the seal in saveVault
ImportVault(w, pid, importPath, path, password, overwrite, rs, ri, rs2, ri2) ==
    LET failed(error, calls) ==
            AfterLog(
                Outcome([w EXCEPT !.aud = AuditLog(@, w.t, "vault_import",
                                                   <<"Failed to import vault from", importPath>>,
                                                   "failure", pid)],
                        Wrapped(MsgImportFailedPrefix, error), Undefined,
                        calls \o <<"log:failure">>),
                w.aud)
        importData == JsonParse(w.fs[importPath].text)
        vault == ImportedVault(Get(importData, "entries"), w.t, importPath)
        created == CreateVault(w, pid, path, password, rs, ri)
        saved == SaveVault(created.w, pid, path, password, vault, rs2, ri2)
    IN IF ~Exists(w.fs[importPath])
       THEN failed(Err("Error", MsgNoSuchFile), <<"readFile">>)
       ELSE IF w.fs[importPath].text.j = "invalid"
       THEN failed(Err("SyntaxError", MsgJsonSyntax), <<"readFile">>)
       ELSE IF InvalidImport(importData)
       THEN failed(Err("Error", MsgInvalidImport), <<"readFile">>)
       ELSE IF DestinationTaken(w.fs, path, overwrite)
       THEN failed(Err("Error", MsgVaultExists), <<"readFile", "access">>)
       ELSE AfterLog(
                Outcome([saved.w EXCEPT !.aud = AuditLog(@, saved.w.t, "vault_import",
                                                         <<"Imported vault from", importPath,
                                                           path>>,
                                                         "success", pid)],
                        NoError, Undefined,
                        <<"readFile", "access">> \o created.calls \o saved.calls
                            \o <<"log:success">>),
                saved.w.aud)

-----------------------------------------------------------------------------
(* The processes, the paths and the inputs *)

Procs == {1, 2}
NoProc == 0
Paths == {"A", "B"}

\* (mutant) the backup path is the path of the vault
BackupPathIsVault(path) == path

\* vaultPath + '.backup'
BackupPath(path) == path \o ".backup"

\* path.join(os.homedir(), '.pwcli.json')
CONFIG_FILE == ".pwcli.json"

\* the files an export is written to and an import read from
PlainPaths == {"export.json"}

\* every file the calls can touch, apart from the attempts file and the audit file
Files == Paths \cup {BackupPath(p) : p \in Paths} \cup PlainPaths \cup {CONFIG_FILE}

NoFiles == [p \in Files |-> NoFile]
Passwords == {"correct-horse", "wrong"}
Rand == 1..NumRand

\* promptEntryDetails(): { password } and, when one was typed, username
Entry(password, username) ==
    Obj(IF username = "" THEN [password |-> Str(password)]
        ELSE [password |-> Str(password), username |-> Str(username)])

EntryMaps ==
    {<<>>,
     "github" :> Entry("s3cr3t", "alice"),
     ("github" :> Entry("s3cr3t", "alice")) @@ ("email-work" :> Entry("hunter2", ""))}

Vault(entries, createdAt, updatedAt) ==
    Obj([entries |-> Obj(entries), createdAt |-> ToISOString(createdAt),
         updatedAt |-> ToISOString(updatedAt)])

\* the vaults a caller holds: loaded or created earlier, entries added since
Vaults == {Vault(e, Epoch - TickMs, u) : e \in EntryMaps, u \in {Epoch - TickMs, Epoch}}

NoCall == [op |-> "none", pid |-> NoProc, path |-> "A", newPath |-> "B", password |-> "wrong",
           newPassword |-> "wrong", plainPath |-> "export.json", overwrite |-> FALSE,
           key |-> <<>>, typed |-> "", confirmed |-> FALSE,
           error |-> NoError, value |-> Undefined, calls |-> <<>>, warned |-> FALSE,
           t0 |-> 0, fs0 |-> NoFiles, att0 |-> NoFile, aud0 |-> NoFile]

\* the local variables of a call in progress, and what the world was when it started
LocIdle == [op |-> "none", path |-> "A", newPath |-> "B", password |-> "wrong",
            vault |-> Undefined, text |-> InvalidText(0), release |-> FALSE, retries |-> 0,
            overlap |-> FALSE, error |-> NoError, calls |-> <<>>, warned |-> FALSE,
            typed |-> "", confirmed |-> FALSE, size |-> 0, wake |-> 0,
            attempts |-> GetAttempts(NoFile), existingLogs |-> <<>>,
            t0 |-> 0, fs0 |-> NoFiles, att0 |-> NoFile, aud0 |-> NoFile]

NoHist == [streak |-> 0, fails |-> 0, failedAt |-> 0]

CxOff == [stage |-> "off", V |-> Undefined, P |-> "wrong", path |-> "A", sealed |-> Undefined,
          env |-> Undefined, changes |-> 0, P2 |-> "wrong",
          res |-> Success(Undefined)]

\* no call has been made: no attempts file, no audit file, no lock, every process idle
InitIdle ==
    /\ now = Epoch
    /\ attemptsFile = NoFile
    /\ auditFile = NoFile
    /\ lockedBy = [p \in Paths |-> NoProc]
    /\ activeLocks = [p \in Procs |-> {}]
    /\ pc = [p \in Procs |-> "idle"]
    /\ loc = [p \in Procs |-> LocIdle]
    /\ last = NoCall
    /\ hist = NoHist

InitWorld ==
    /\ InitIdle
    /\ fs = NoFiles

world == World(fs, attemptsFile, auditFile, now)

\* the variables take the world a call leaves
Becomes(w) ==
    /\ fs' = w.fs
    /\ attemptsFile' = w.att
    /\ auditFile' = w.aud
    /\ now' = w.t

\* the record of a call that ran in one step
Called(op, pid, path, password, out) ==
    [NoCall EXCEPT !.op = op, !.pid = pid, !.path = path, !.password = password,
                   !.error = out.error, !.value = out.value, !.calls = out.calls,
                   !.t0 = now, !.fs0 = fs, !.att0 = attemptsFile, !.aud0 = auditFile]

\* the local variables of a call that starts now
Began(op, path, newPath, password) ==
    [LocIdle EXCEPT !.op = op, !.path = path, !.newPath = newPath, !.password = password,
                    !.t0 = now, !.fs0 = fs, !.att0 = attemptsFile, !.aud0 = auditFile]

\* the record of a call of process pid that ends with locals l, throwing error (or none)
Finished(pid, l, error) ==
    [NoCall EXCEPT !.op = l.op, !.pid = pid, !.path = l.path, !.newPath = l.newPath,
                   !.password = l.password, !.error = error, !.value = l.vault,
                   !.calls = l.calls, !.warned = l.warned,
                   !.typed = l.typed, !.confirmed = l.confirmed,
                   !.t0 = l.t0, !.fs0 = l.fs0, !.att0 = l.att0, !.aud0 = l.aud0]

-----------------------------------------------------------------------------
(* SpecCrypto: seal a vault, change the envelope, open it; and the same     *)
(* through the vault file: save, then load.                                 *)

EnvelopeFields == {"salt", "iv", "authTag", "data"}

InitCrypto ==
    /\ InitWorld
    /\ \E V \in Vaults, P \in Passwords :
          cx = [CxOff EXCEPT !.stage = "input", !.V = V, !.P = P]

\* seal(V, P)
CxSeal(rs, ri) ==
    /\ cx.stage = "input"
    /\ LET e == EncryptJson(cx.V, cx.P, rs, ri)
       IN cx' = [cx EXCEPT !.stage = "sealed", !.sealed = e, !.env = e]
    /\ UNCHANGED <<now, fs, attemptsFile, auditFile, lockedBy, activeLocks, pc, loc, last, hist>>

CxChange(f, value) ==
    /\ cx.stage = "sealed"
    /\ cx.changes < MaxTamper
    /\ value # Get(cx.env, f)
    /\ cx' = [cx EXCEPT !.env.obj[f] = value, !.changes = @ + 1]
    /\ UNCHANGED <<now, fs, attemptsFile, auditFile, lockedBy, activeLocks, pc, loc, last, hist>>

\* one bit of one byte of a field is flipped
CxFlipByte(f, i) ==
    /\ cx.stage = "sealed"
    /\ IsString(Get(cx.env, f))
    /\ i \in 1..FromBase64(Get(cx.env, f)).len
    /\ CxChange(f, ToBase64(FlipByte(FromBase64(Get(cx.env, f)), i)))

\* a field is cut to its first n bytes
CxTruncate(f, n) ==
    /\ cx.stage = "sealed"
    /\ IsString(Get(cx.env, f))
    /\ n < FromBase64(Get(cx.env, f)).len
    /\ CxChange(f, ToBase64(Truncate(FromBase64(Get(cx.env, f)), n)))

\* white space is added to the text of a field
CxInsertSpace(f) ==
    /\ cx.stage = "sealed"
    /\ IsString(Get(cx.env, f))
    /\ CxChange(f, Base64Str(Append(Get(cx.env, f).b64, [c |-> " "])))

\* the '=' padding of a field is dropped
CxDropPadding(f) ==
    /\ cx.stage = "sealed"
    /\ IsString(Get(cx.env, f))
    /\ CxChange(f, Base64Str(SelectSeq(Get(cx.env, f).b64, LAMBDA ch : ch.c # "=")))

\* a field is removed from the envelope
CxRemoveField(f) ==
    /\ cx.stage = "sealed"
    /\ CxChange(f, Undefined)

\* open(envelope, password)
CxOpen(password) ==
    /\ cx.stage = "sealed"
    /\ cx' = [cx EXCEPT !.stage = "opened", !.P2 = password,
                        !.res = DecryptJson(cx.env, password)]
    /\ UNCHANGED <<now, fs, attemptsFile, auditFile, lockedBy, activeLocks, pc, loc, last, hist>>

\* save(path, P, V) by process 1
CxSave(path, rs, ri) ==
    /\ cx.stage = "input"
    /\ LET out == SaveVault(world, 1, path, cx.P, cx.V, rs, ri)
       IN /\ Becomes(out.w)
          /\ last' = Called("saveVault", 1, path, cx.P, out)
          /\ cx' = [cx EXCEPT !.stage = "saved", !.V = out.value, !.path = path]
    /\ UNCHANGED <<lockedBy, activeLocks, pc, loc, hist>>

\* open(path, password) by process 1, after the save
CxLoad(path, password) ==
    /\ cx.stage = "saved"
    /\ LET out == LoadVault(world, 1, path, password)
       IN /\ Becomes(out.w)
          /\ last' = Called("loadVault", 1, path, password, out)
          /\ cx' = [cx EXCEPT !.stage = "loaded", !.P2 = password,
                              !.res = [ok |-> ~Threw(out.error), value |-> out.value,
                                       error |-> out.error, diag |-> "none"]]
    /\ UNCHANGED <<lockedBy, activeLocks, pc, loc, hist>>

NextCrypto ==
    \/ \E rs, ri \in Rand : CxSeal(rs, ri)
    \/ \E f \in EnvelopeFields : \E i \in {1, 2} : CxFlipByte(f, i)
    \/ \E f \in EnvelopeFields : \E n \in {0, 4, 15} : CxTruncate(f, n)
    \/ \E f \in EnvelopeFields : CxInsertSpace(f)
    \/ \E f \in EnvelopeFields : CxDropPadding(f)
    \/ \E f \in EnvelopeFields : CxRemoveField(f)
    \/ \E password \in Passwords : CxOpen(password)
    \/ \E path \in Paths, rs, ri \in Rand : CxSave(path, rs, ri)
    \/ \E path \in Paths, password \in Passwords : CxLoad(path, password)

SpecCrypto == InitCrypto /\ [][NextCrypto]_vars


-----------------------------------------------------------------------------
(* SpecThrottle: one process keeps opening the vault at A, time passing in  *)
(* between.  The audit file is unreadable, so log() returns without writing *)
(* (vault.js:246-250) and the attempts file and the clock are all that      *)
(* changes.                                                                 *)

CorruptAudit == [kind |-> "corrupt"]

\* the vault at A: created with 'correct-horse' half a second before the model starts
InstalledVault ==
    CreateVault(World(NoFiles, NoFile, CorruptAudit, Epoch - KdfMs),
                1, "A", "correct-horse", 1, 1).w.fs

InitThrottle ==
    /\ now = Epoch
    /\ fs = InstalledVault
    /\ attemptsFile = NoFile
    /\ auditFile = CorruptAudit
    /\ lockedBy = [p \in Paths |-> NoProc]
    /\ activeLocks = [p \in Procs |-> {}]
    /\ pc = [p \in Procs |-> "idle"]
    /\ loc = [p \in Procs |-> LocIdle]
    /\ last = NoCall
    /\ hist = NoHist
    /\ cx = CxOff

\* time passes
Tick ==
    /\ now < MaxNow
    /\ now' = now + TickMs
    /\ UNCHANGED <<fs, attemptsFile, auditFile, lockedBy, activeLocks, pc, loc, last, hist, cx>>

\* the unlock attempts so far: fails counts the failed opens since the last successful
\* one, streak those of them recorded at most 2 * minDelayMs after the one before
Attempted(out) ==
    IF ~Threw(out.error) THEN NoHist
    ELSE IF \A i \in DOMAIN out.calls : out.calls[i] # "decryptJson" THEN hist
    ELSE [fails |-> hist.fails + 1,
          streak |-> IF hist.fails > 0 /\ out.w.t - hist.failedAt <= 2 * minDelayMs
                     THEN hist.streak + 1 ELSE 1,
          failedAt |-> out.w.t]

\* open(path, password) by process pid
Load(pid, path, password) ==
    /\ now <= MaxNow
    /\ hist.fails < MaxFails
    /\ AuditLen(auditFile) < MaxLogs
    /\ pc[pid] = "idle"
    /\ LET out == LoadVault(world, pid, path, password)
       IN /\ Becomes(out.w)
          /\ last' = Called("loadVault", pid, path, password, out)
          /\ hist' = Attempted(out)
    /\ UNCHANGED <<lockedBy, activeLocks, pc, loc, cx>>

NextThrottle ==
    \/ Tick
    \/ \E password \in Passwords : Load(1, "A", password)

SpecThrottle == InitThrottle /\ [][NextThrottle]_vars

-----------------------------------------------------------------------------
(* What can happen to a vault file behind the program's back *)

Envelope(file) == JsonParse(file.text)

\* the file holds an envelope as encryptJson built it, written by writeFile
Intact(file) ==
    /\ Exists(file)
    /\ file.pad = 0
    /\ file.text.j = "object"
    /\ \A f \in EnvelopeFields :
          /\ IsString(Get(Envelope(file), f))
          /\ Get(Envelope(file), f) = ToBase64(FromBase64(Get(Envelope(file), f)))
          /\ FromBase64(Get(Envelope(file), f)).mods = {}
    /\ FromBase64(Get(Envelope(file), "authTag")).len = GcmTagLen

WithField(file, f, value) ==
    [file EXCEPT !.text = JsonStringify([Envelope(file) EXCEPT !.obj[f] = value])]

\* the damaged versions of an intact file: cut short, emptied, replaced by other JSON,
\* a byte of a field flipped, the tag cut to 4 bytes, a field lost, a newline appended
Damaged(file) ==
    {[file EXCEPT !.text = InvalidText(n)] : n \in {0, Size(file) - 1}}
    \cup {[file EXCEPT !.text = JsonStringify(Null)]}
    \cup {WithField(file, f, ToBase64(FlipByte(FromBase64(Get(Envelope(file), f)), 1))) :
             f \in EnvelopeFields}
    \cup {WithField(file, "authTag",
                    ToBase64(Truncate(FromBase64(Get(Envelope(file), "authTag")), 4)))}
    \cup {WithField(file, f, Undefined) : f \in {"salt", "data"}}
    \cup {[file EXCEPT !.pad = 1]}

-----------------------------------------------------------------------------
(* Spec: one process creates vaults and opens them; a vault file may be     *)
(* damaged between two calls.  The audit file works.                        *)

Init ==
    /\ InitWorld
    /\ cx = CxOff

\* createVault(path, password) by process pid
Create(pid, path, password, rs, ri) ==
    /\ AuditLen(auditFile) < MaxLogs
    /\ pc[pid] = "idle"
    /\ LET out == CreateVault(world, pid, path, password, rs, ri)
       IN /\ Becomes(out.w)
          /\ last' = Called("createVault", pid, path, password, out)
    /\ UNCHANGED <<lockedBy, activeLocks, pc, loc, hist, cx>>

\* the file at path is damaged
Damage(path) ==
    /\ Intact(fs[path])
    /\ \A p \in Procs : pc[p] = "idle"
    /\ \E d \in Damaged(fs[path]) : fs' = [fs EXCEPT ![path] = d]
    /\ UNCHANGED <<now, attemptsFile, auditFile, lockedBy, activeLocks, pc, loc, last, hist, cx>>

Next ==
    \/ \E path \in Paths, password \in Passwords, rs, ri \in Rand : Create(1, path, password, rs, ri)
    \/ \E path \in Paths, password \in Passwords : Load(1, path, password)
    \/ \E path \in Paths : Damage(path)

Spec == Init /\ [][Next]_vars

-----------------------------------------------------------------------------
(* vault.js: moveVault, step by step *)

\* fs.copyFile(oldPath, newPath) and fs.chmod(newPath, 0o600)
CopyFile(f, oldPath, newPath) == [f EXCEPT ![newPath] = [f[oldPath] EXCEPT !.mode = OwnerOnly]]

\* fs.unlink(path)
Unlink(f, path) == [f EXCEPT ![path] = NoFile]

\* oldStats.size !== newStats.size
SizesDiffer(f, oldPath, newPath) == Size(f[oldPath]) # Size(f[newPath])

\* (mutant) the copy is taken for good without being opened or measured
VerifyCopyOmitted(w, pid, l) ==
    Outcome(w, NoError, Undefined, <<"verify">>)

\* the verification of the copy: loadVault(newPath, password), then the two fs.stat
\* and the comparison of the sizes
VerifyCopy(w, pid, l) ==
    LET out == LoadVault(w, pid, l.newPath, l.password)
    IN IF Threw(out.error)
       THEN Outcome(out.w, out.error, Undefined, <<"verify">> \o out.calls \o <<"throw:loadVault">>)
       ELSE IF SizesDiffer(out.w.fs, l.path, l.newPath)
       THEN Outcome(out.w, Err("Error", MsgSizeMismatch), Undefined,
                    <<"verify">> \o out.calls \o <<"stat", "stat", "throw:size">>)
       ELSE Outcome(out.w, NoError, out.value, <<"verify">> \o out.calls \o <<"stat", "stat">>)

\* (mutant) the rollback removes the file at the old path
RolledBackOldFile(f, l, removed) ==
    IF removed THEN Unlink(f, l.path) ELSE f

\* the files after the rollback: fs.unlink(newPath), which may fail
RolledBack(f, l, removed) ==
    IF removed THEN Unlink(f, l.newPath) ELSE f

\* (mutant) the old file is deleted whatever the verification found
DeleteOldAfterAnything(out) == TRUE

\* the old file is deleted once the verification threw nothing
DeleteOldAfter(out) == ~Threw(out.error)

\* the call of process pid ends, throwing error (or none)
Return(pid, l, error) ==
    /\ pc' = [pc EXCEPT ![pid] = "idle"]
    /\ loc' = [loc EXCEPT ![pid] = LocIdle]
    /\ last' = Finished(pid, l, error)

\* the call of process pid goes on at `at`
Goto(pid, l, at) ==
    /\ pc' = [pc EXCEPT ![pid] = at]
    /\ loc' = [loc EXCEPT ![pid] = l]
    /\ last' = last

\* moveVault up to the copy: loadVault(oldPath, password), the directory and the
\* destination are checked
MoveStart(pid, oldPath, newPath, password, writable) ==
    /\ AuditLen(auditFile) < MaxLogs
    /\ pc[pid] = "idle"
    /\ oldPath # newPath
    /\ LET out == LoadVault(world, pid, oldPath, password)
           l == [Began("moveVault", oldPath, newPath, password)
                    EXCEPT !.vault = out.value, !.calls = out.calls]
       IN /\ Becomes(out.w)
          /\ hist' = Attempted(out)
          /\ IF Threw(out.error) THEN Return(pid, l, out.error)
             ELSE IF ~writable
             THEN Return(pid, [l EXCEPT !.calls = @ \o <<"access:dir">>],
                         Err("Error", MsgDirNotWritable))
             ELSE IF Exists(out.w.fs[newPath])
             THEN Return(pid, [l EXCEPT !.calls = @ \o <<"access:dir", "access:new">>],
                         Err("Error", MsgDestExists))
             ELSE Goto(pid, [l EXCEPT !.calls = @ \o <<"access:dir", "access:new">>], "moveCopy")
    /\ UNCHANGED <<lockedBy, activeLocks, cx>>

\* the copy to the new location, and its permissions
MoveCopy(pid) ==
    /\ pc[pid] = "moveCopy"
    /\ fs' = CopyFile(fs, loc[pid].path, loc[pid].newPath)
    /\ Goto(pid, [loc[pid] EXCEPT !.calls = @ \o <<"copyFile", "chmod">>], "moveCopied")
    /\ UNCHANGED <<now, attemptsFile, auditFile, lockedBy, activeLocks, hist, cx>>

\* the copy is damaged before it is verified
CorruptCopy(pid) ==
    /\ pc[pid] = "moveCopied"
    /\ Intact(fs[loc[pid].newPath])
    /\ \E d \in Damaged(fs[loc[pid].newPath]) : fs' = [fs EXCEPT ![loc[pid].newPath] = d]
    /\ UNCHANGED <<now, attemptsFile, auditFile, lockedBy, activeLocks, pc, loc, last, hist, cx>>

\* the copy is verified
MoveVerify(pid) ==
    /\ pc[pid] = "moveCopied"
    /\ LET out == VerifyCopy(world, pid, loc[pid])
           l == [loc[pid] EXCEPT !.calls = @ \o out.calls, !.error = out.error]
       IN /\ Becomes(out.w)
          /\ hist' = Attempted(LoadVault(world, pid, loc[pid].newPath, loc[pid].password))
          /\ Goto(pid, l, IF DeleteOldAfter(out) THEN "moveUnlink" ELSE "moveRollback")
    /\ UNCHANGED <<lockedBy, activeLocks, cx>>

\* fs.unlink(oldPath), which may fail
MoveUnlinkOld(pid, removed) ==
    /\ pc[pid] = "moveUnlink"
    /\ IF removed
       THEN /\ fs' = Unlink(fs, loc[pid].path)
            /\ Return(pid, [loc[pid] EXCEPT !.calls = @ \o <<"unlink:old">>], NoError)
       ELSE /\ fs' = fs
            /\ Goto(pid, [loc[pid] EXCEPT !.calls = @ \o <<"throw:unlink:old">>,
                                          !.error = Err("Error", MsgUnlinkFailed)],
                    "moveRollback")
    /\ UNCHANGED <<now, attemptsFile, auditFile, lockedBy, activeLocks, hist, cx>>

\* the catch block: the copy is removed (or a warning printed) and the error wrapped
MoveRollback(pid, removed) ==
    /\ pc[pid] = "moveRollback"
    /\ fs' = RolledBack(fs, loc[pid], removed)
    /\ Return(pid, [loc[pid] EXCEPT !.calls = @ \o <<IF removed THEN "unlink:new"
                                                      ELSE "throw:unlink:new">>,
                                    !.warned = ~removed],
              Err("Error", MsgRolledBackPrefix \o loc[pid].error.message))
    /\ UNCHANGED <<now, attemptsFile, auditFile, lockedBy, activeLocks, hist, cx>>

-----------------------------------------------------------------------------
(* SpecMove: a vault saved at A with 'correct-horse', and process 1 moving  *)
(* it; the copy may be damaged between the copy and its verification.       *)

InitMove ==
    /\ InitIdle
    /\ cx = CxOff
    /\ \E V \in Vaults, other \in {NoFile, InstalledVault["A"]} :
          fs = [SaveVault(World(NoFiles, NoFile, NoFile, Epoch - KdfMs),
                          1, "A", "correct-horse", V, 1, 1).w.fs EXCEPT !["B"] = other]

NextMove ==
    \/ \E oldPath, newPath \in Paths, password \in Passwords, writable \in BOOLEAN :
          MoveStart(1, oldPath, newPath, password, writable)
    \/ MoveCopy(1)
    \/ CorruptCopy(1)
    \/ MoveVerify(1)
    \/ \E removed \in BOOLEAN : MoveUnlinkOld(1, removed)
    \/ \E removed \in BOOLEAN : MoveRollback(1, removed)

SpecMove == InitMove /\ [][NextMove]_vars

-----------------------------------------------------------------------------
(* vault.js: saveVault, step by step, for processes that contend *)

\* 'ENOENT', 'ELOCKED' or 'ok'
LockResult(code) == [code |-> code]

\* (mutant) the lock is granted whoever holds it
LockGrantedToAll(f, holders, path, pid) ==
    IF ~Exists(f[path]) THEN LockResult("ENOENT") ELSE LockResult("ok")

\* lockfile.lock(vaultPath): the file must exist (else ENOENT), and path.lock is made
\* unless another process holds it (ELOCKED)
Lock(f, holders, path, pid) ==
    IF ~Exists(f[path]) THEN LockResult("ENOENT")
    ELSE IF holders[path] # NoProc THEN LockResult("ELOCKED")
    ELSE LockResult("ok")

\* retries: { retries: 5, ... }
LockRetries == 5

\* (mutant) a failed attempt is not counted
RetriedUncounted(n) == n

\* the attempts made again so far, after one more of them
Retried(n) == n + 1

\* the entry trackLock adds to activeLocks, release being the lock of process pid
Tracked(path, pid) == [vaultPath |-> path, release |-> pid]

\* the processes whose fs.writeFile on path is under way
Writers(path) == {p \in Procs : pc[p] = "saveWriting" /\ loc[p].path = path}

\* the process exits after its command
Exit(pid, l, error) ==
    /\ pc' = [pc EXCEPT ![pid] = "exited"]
    /\ loc' = [loc EXCEPT ![pid] = LocIdle]
    /\ last' = Finished(pid, l, error)

\* saveVault returns or throws: the command ends, unless importVault made the call,
\* which goes on to its audit record, or changeMasterPassword, which goes on to unlink
\* the backup path
SaveEnds(pid, l, error) ==
    IF l.op = "importVault" THEN Goto(pid, [l EXCEPT !.error = error], "importLog")
    ELSE IF l.op = "changeMasterPassword"
    THEN Goto(pid, [l EXCEPT !.error = error], "rekeyCleanup")
    ELSE Exit(pid, l, error)

\* saveVault(path, password, vault) starts: vault.updatedAt is stamped
SaveStart(pid, path, password, vault) ==
    /\ pc[pid] = "idle"
    /\ Goto(pid, [Began("saveVault", path, path, password)
                     EXCEPT !.vault = StampUpdatedAt(vault, now)], "saveLock")
    /\ UNCHANGED <<now, fs, attemptsFile, auditFile, lockedBy, activeLocks, hist, cx>>

\* one attempt of lockfile.lock: granted and tracked, the file missing (the save goes
\* on without the lock), or held by another process (retried, at most 5 times)
SaveLock(pid) ==
    /\ pc[pid] = "saveLock"
    /\ LET l == loc[pid]
           res == Lock(fs, lockedBy, l.path, pid)
       IN IF res.code = "ok"
          THEN /\ lockedBy' = [lockedBy EXCEPT ![l.path] = pid]
               /\ activeLocks' = [activeLocks EXCEPT ![pid] = @ \cup {Tracked(l.path, pid)}]
               /\ Goto(pid, [l EXCEPT !.release = TRUE, !.calls = @ \o <<"lock", "trackLock">>],
                       "saveSeal")
          ELSE IF res.code = "ENOENT"
          THEN /\ UNCHANGED <<lockedBy, activeLocks>>
               /\ Goto(pid, [l EXCEPT !.calls = @ \o <<"lock:ENOENT">>], "saveSeal")
          ELSE IF l.retries < LockRetries
          THEN /\ UNCHANGED <<lockedBy, activeLocks>>
               /\ Goto(pid, [l EXCEPT !.retries = Retried(@)], "saveLock")
          ELSE /\ UNCHANGED <<lockedBy, activeLocks>>
               /\ SaveEnds(pid, [l EXCEPT !.calls = @ \o <<"lock:ELOCKED">>],
                           Err("Error", MsgLockFailed))
    /\ UNCHANGED <<now, fs, attemptsFile, auditFile, hist, cx>>

\* encryptJson(vault, password) and JSON.stringify(encrypted, null, 2)
SaveSeal(pid, rs, ri) ==
    /\ pc[pid] = "saveSeal"
    /\ now' = now + KdfMs
    /\ Goto(pid, [loc[pid] EXCEPT !.text = SealedText(loc[pid].vault, loc[pid].password, rs, ri),
                                  !.calls = @ \o <<"encryptJson">>], "saveWrite")
    /\ UNCHANGED <<fs, attemptsFile, auditFile, lockedBy, activeLocks, hist, cx>>

\* encryptJson throws: the try block is left for the finally block
SaveSealFails(pid) ==
    /\ pc[pid] = "saveSeal"
    /\ Goto(pid, [loc[pid] EXCEPT !.error = Err("Error", MsgSealFailed),
                                  !.calls = @ \o <<"throw:encryptJson">>], "saveRelease")
    /\ UNCHANGED <<now, fs, attemptsFile, auditFile, lockedBy, activeLocks, hist, cx>>

\* fs.writeFile throws, before it opened the file or after it emptied it: the file stays
\* as it is, and the try block is left for the finally block
SaveWriteFails(pid) ==
    /\ pc[pid] \in {"saveWrite", "saveWriting"}
    /\ Goto(pid, [loc[pid] EXCEPT !.error = Err("Error", MsgWriteFailed),
                                  !.calls = @ \o <<"throw:writeFile">>], "saveRelease")
    /\ UNCHANGED <<now, fs, attemptsFile, auditFile, lockedBy, activeLocks, hist, cx>>

\* fs.writeFile opens the file: it is created or emptied.  A write already under way
\* on the same file now overlaps with this one.
SaveWriteBegin(pid) ==
    /\ pc[pid] = "saveWrite"
    /\ LET l == loc[pid]
           others == Writers(l.path)
       IN /\ fs' = [fs EXCEPT ![l.path] = WriteFile(@, InvalidText(0), OwnerOnly)]
          /\ pc' = [pc EXCEPT ![pid] = "saveWriting"]
          /\ loc' = [p \in Procs |->
                        IF p = pid THEN [l EXCEPT !.overlap = others # {},
                                                  !.calls = @ \o <<"writeFile">>]
                        ELSE IF p \in others THEN [loc[p] EXCEPT !.overlap = TRUE]
                        ELSE loc[p]]
    /\ UNCHANGED <<now, attemptsFile, auditFile, lockedBy, activeLocks, last, hist, cx>>

\* fs.writeFile is done: the file holds the text, unless an overlapping write left a
\* mix of the two texts
SaveWriteEnd(pid, torn) ==
    /\ pc[pid] = "saveWriting"
    /\ torn => loc[pid].overlap
    /\ LET l == loc[pid]
           written == IF torn THEN InvalidText(TextLength(l.text, 2, 0)) ELSE l.text
       IN /\ fs' = [fs EXCEPT ![l.path] = WriteFile(@, written, OwnerOnly)]
          /\ Goto(pid, l, "saveRelease")
    /\ UNCHANGED <<now, attemptsFile, auditFile, lockedBy, activeLocks, hist, cx>>

\* (mutant) the lock is released after a write that succeeded only
ReleasedAfterSuccessOnly(holders, path, error) ==
    IF Threw(error) THEN holders ELSE [holders EXCEPT ![path] = NoProc]

\* release(): path.lock is removed
Released(holders, path, error) == [holders EXCEPT ![path] = NoProc]

\* the finally block: untrackLock and release(), when the lock was taken; the error of
\* the try block, if any, is thrown on
SaveRelease(pid) ==
    /\ pc[pid] = "saveRelease"
    /\ LET l == loc[pid]
       IN IF l.release
          THEN /\ activeLocks' = [activeLocks EXCEPT ![pid] = @ \ {Tracked(l.path, pid)}]
               /\ lockedBy' = Released(lockedBy, l.path, l.error)
               /\ SaveEnds(pid, [l EXCEPT !.calls = @ \o <<"untrackLock", "release">>],
                           l.error)
          ELSE /\ UNCHANGED <<lockedBy, activeLocks>>
               /\ SaveEnds(pid, l, l.error)
    /\ UNCHANGED <<now, fs, attemptsFile, auditFile, hist, cx>>

-----------------------------------------------------------------------------
(* SpecSave: two processes, each running one command that saves the vault   *)
(* at A, which exists or not when they start.                               *)

InitSave ==
    /\ InitIdle
    /\ cx = CxOff
    /\ \E file \in {NoFile, InstalledVault["A"]} : fs = [NoFiles EXCEPT !["A"] = file]

NextSave ==
    \/ \E pid \in Procs, vault \in Vaults : SaveStart(pid, "A", "correct-horse", vault)
    \/ \E pid \in Procs : SaveLock(pid)
    \/ \E pid \in Procs, rs, ri \in Rand : SaveSeal(pid, rs, ri)
    \/ \E pid \in Procs : SaveWriteBegin(pid)
    \/ \E pid \in Procs, torn \in BOOLEAN : SaveWriteEnd(pid, torn)
    \/ \E pid \in Procs : SaveRelease(pid)
    \/ \E pid \in Procs : SaveSealFails(pid)
    \/ \E pid \in Procs : SaveWriteFails(pid)

SpecSave == InitSave /\ [][NextSave]_vars

-----------------------------------------------------------------------------
(* SpecContend: the two saves of SpecSave on an existing vault, each with   *)
(* one vault and one outcome of the random draws.  The timer of a retry     *)
(* always fires, so a process that can try the lock again does; nothing     *)
(* makes the holder of the lock go on.                                      *)

InitContend ==
    /\ InitIdle
    /\ cx = CxOff
    /\ fs = [NoFiles EXCEPT !["A"] = InstalledVault["A"]]

NextContend ==
    \/ \E pid \in Procs : SaveStart(pid, "A", "correct-horse", Vault(<<>>, Epoch - TickMs, Epoch))
    \/ \E pid \in Procs : SaveLock(pid)
    \/ \E pid \in Procs : SaveSeal(pid, 1, 1)
    \/ \E pid \in Procs : SaveSealFails(pid)
    \/ \E pid \in Procs : SaveWriteBegin(pid)
    \/ \E pid \in Procs : SaveWriteFails(pid)
    \/ \E pid \in Procs, torn \in BOOLEAN : SaveWriteEnd(pid, torn)
    \/ \E pid \in Procs : SaveRelease(pid)

SpecContend ==
    InitContend /\ [][NextContend]_vars /\ \A pid \in Procs : WF_vars(SaveLock(pid))

-----------------------------------------------------------------------------
(* Processes come and go.  The rate limiter of a process is built when the  *)
(* module is loaded; what it knows it reads from the attempts file.         *)

\* (mutant) the limiter of a new process starts from a clean attempts file
LaunchedClean(file) == NoFile

\* the attempts file once `new PersistentRateLimiter(1000)` has run: the constructor
\* sets four fields of the instance and touches no file
Launched(file) == file

\* cleanupLocks(): every tracked lock is released
CleanedUp(holders, pid) ==
    [p \in Paths |-> IF Tracked(p, pid) \in activeLocks[pid] THEN NoProc ELSE holders[p]]

\* the process ends (its command is done, or SIGINT / SIGTERM): the exit handlers run
Terminate(pid) ==
    /\ pc[pid] = "idle"
    /\ pc' = [pc EXCEPT ![pid] = "exited"]
    /\ lockedBy' = CleanedUp(lockedBy, pid)
    /\ activeLocks' = [activeLocks EXCEPT ![pid] = {}]
    /\ UNCHANGED <<now, fs, attemptsFile, auditFile, loc, last, hist, cx>>

\* the tool is launched again: the modules are loaded afresh
Launch(pid) ==
    /\ pc[pid] = "exited"
    /\ pc' = [pc EXCEPT ![pid] = "idle"]
    /\ attemptsFile' = Launched(attemptsFile)
    /\ UNCHANGED <<now, fs, auditFile, lockedBy, activeLocks, loc, last, hist, cx>>

-----------------------------------------------------------------------------
(* SpecRestart: the vault at A, a throttle state left by earlier runs, and  *)
(* two processes that open the vault, end and are launched again.           *)

\* attempts files earlier runs leave: none, some failures, one short of the lockout,
\* locked out
PersistedAttempts ==
    {NoFile}
    \cup {SaveAttempts(NoFile, [lastAttempt |-> Epoch - TickMs, failedAttempts |-> n,
                                lockedUntil |-> 0]) : n \in {1, maxFailedAttempts - 1}}
    \cup {SaveAttempts(NoFile, [lastAttempt |-> Epoch - TickMs,
                                failedAttempts |-> maxFailedAttempts,
                                lockedUntil |-> Epoch - TickMs + lockoutDuration])}

InitRestart ==
    /\ now = Epoch
    /\ fs = InstalledVault
    /\ attemptsFile \in PersistedAttempts
    /\ auditFile = NoFile
    /\ lockedBy = [p \in Paths |-> NoProc]
    /\ activeLocks = [p \in Procs |-> {}]
    /\ pc = [p \in Procs |-> IF p = 1 THEN "idle" ELSE "exited"]
    /\ loc = [p \in Procs |-> LocIdle]
    /\ last = NoCall
    /\ hist = NoHist
    /\ cx = CxOff

NextRestart ==
    \/ \E pid \in Procs, password \in Passwords : Load(pid, "A", password)
    \/ \E pid \in Procs : Terminate(pid)
    \/ \E pid \in Procs : Launch(pid)

SpecRestart == InitRestart /\ [][NextRestart]_vars

-----------------------------------------------------------------------------
(* vault.js: changeMasterPassword *)

\* (mutant) the vault is saved again under the old password
ChangeMasterPasswordKeepsKey(w, pid, path, oldPassword, newPassword, rs, ri) ==
    LET loaded == LoadVault(w, pid, path, oldPassword)
        saved == SaveVault(loaded.w, pid, path, oldPassword,
                           JsonParse(JsonStringify(loaded.value)), rs, ri)
    IN IF Threw(loaded.error)
       THEN Outcome([loaded.w EXCEPT !.fs = Unlink(@, BackupPath(path))],
                    loaded.error, Undefined, loaded.calls \o <<"unlink:backup">>)
       ELSE Outcome([saved.w EXCEPT !.fs = Unlink(@, BackupPath(path))],
                    NoError, Undefined, loaded.calls \o saved.calls \o <<"unlink:backup">>)

\* changeMasterPassword(vaultPath, oldPassword, newPassword) by process pid: loadVault,
\* the clone, saveVault under the new password; the file at vaultPath + '.backup' is
\* unlinked whether this succeeds or throws
ChangeMasterPassword(w, pid, path, oldPassword, newPassword, rs, ri) ==
    LET loaded == LoadVault(w, pid, path, oldPassword)
        vaultClone == JsonParse(JsonStringify(loaded.value))
        saved == SaveVault(loaded.w, pid, path, newPassword, vaultClone, rs, ri)
    IN IF Threw(loaded.error)
       THEN Outcome([loaded.w EXCEPT !.fs = Unlink(@, BackupPath(path))],
                    loaded.error, Undefined, loaded.calls \o <<"unlink:backup">>)
       ELSE Outcome([saved.w EXCEPT !.fs = Unlink(@, BackupPath(path))],
                    NoError, Undefined, loaded.calls \o saved.calls \o <<"unlink:backup">>)

-----------------------------------------------------------------------------
(* SpecRekey: a vault saved at A with 'correct-horse', perhaps with a copy   *)
(* kept beside it as A.backup; process 1 opens it and changes its password. *)

SavedVault(V, password) ==
    SaveVault(World(NoFiles, NoFile, NoFile, Epoch - KdfMs), 1, "A", password, V, 1, 1).w.fs["A"]

InitRekey ==
    /\ now = Epoch /\ auditFile = NoFile
    /\ attemptsFile \in PersistedAttempts
    /\ lockedBy = [p \in Paths |-> NoProc] /\ activeLocks = [p \in Procs |-> {}]
    /\ pc = [p \in Procs |-> "idle"] /\ loc = [p \in Procs |-> LocIdle]
    /\ last = NoCall /\ hist = NoHist
    /\ cx = CxOff
    /\ \E V \in Vaults, kept \in BOOLEAN :
          fs = [NoFiles EXCEPT !["A"] = SavedVault(V, "correct-horse"),
                               ![BackupPath("A")] = IF kept THEN SavedVault(V, "correct-horse")
                                                    ELSE NoFile]

\* changeMasterPassword(path, oldPassword, newPassword) by process pid
ChangeMaster(pid, path, oldPassword, newPassword, rs, ri) ==
    /\ AuditLen(auditFile) < MaxLogs
    /\ pc[pid] = "idle"
    /\ LET out == ChangeMasterPassword(world, pid, path, oldPassword, newPassword, rs, ri)
       IN /\ Becomes(out.w)
          /\ last' = [Called("changeMasterPassword", pid, path, oldPassword, out)
                         EXCEPT !.newPassword = newPassword]
          /\ hist' = Attempted(LoadVault(world, pid, path, oldPassword))
    /\ UNCHANGED <<lockedBy, activeLocks, pc, loc, cx>>

NextRekey ==
    \/ \E oldPassword, newPassword \in Passwords, r \in Rand :
          ChangeMaster(1, "A", oldPassword, newPassword, r, r)
    \/ \E path \in Paths, password \in Passwords : Load(1, path, password)
    \/ Create(1, "B", "correct-horse", 1, 1)

SpecRekey == InitRekey /\ [][NextRekey]_vars

-----------------------------------------------------------------------------
(* SpecPort: a vault saved at A; process 1 exports it to export.json,       *)
(* imports export.json to A or B, and opens what is there.                  *)

\* the contents export.json can have before the first call
ForeignPlain ==
    {NoFile,
     File(InvalidText(0), OwnerOnly),
     File(JsonStringify(Obj([version |-> Str("1.0")])), OwnerOnly)}

InitPort ==
    /\ InitIdle
    /\ cx = CxOff
    /\ \E entries \in EntryMaps, taken \in BOOLEAN, plain \in ForeignPlain :
          fs = [NoFiles EXCEPT
                   !["A"] = SavedVault(Vault(entries, Epoch - TickMs, Epoch - TickMs),
                                       "correct-horse"),
                   !["B"] = IF taken THEN SavedVault(EmptyVault(Epoch - TickMs), "wrong")
                            ELSE NoFile,
                   !["export.json"] = plain]

\* exportVault(path, password, exportPath) by process pid
Export(pid, path, password, exportPath) ==
    /\ AuditLen(auditFile) < MaxPortLogs
    /\ pc[pid] = "idle"
    /\ LET out == ExportVault(world, pid, path, password, exportPath)
       IN /\ Becomes(out.w)
          /\ last' = [Called("exportVault", pid, path, password, out)
                         EXCEPT !.plainPath = exportPath]
          /\ hist' = Attempted(LoadVault(world, pid, path, password))
    /\ UNCHANGED <<lockedBy, activeLocks, pc, loc, cx>>

\* importVault(importPath, path, password, { overwrite }) by process pid
Import(pid, importPath, path, password, overwrite, rs, ri, rs2, ri2) ==
    /\ AuditLen(auditFile) < MaxPortLogs
    /\ pc[pid] = "idle"
    /\ LET out == ImportVault(world, pid, importPath, path, password, overwrite, rs, ri,
                              rs2, ri2)
       IN /\ Becomes(out.w)
          /\ last' = [Called("importVault", pid, path, password, out)
                         EXCEPT !.plainPath = importPath, !.overwrite = overwrite]
    /\ UNCHANGED <<lockedBy, activeLocks, pc, loc, hist, cx>>

NextPort ==
    \/ \E password \in Passwords, exportPath \in PlainPaths :
          Export(1, "A", password, exportPath)
    \/ \E importPath \in PlainPaths, path \in Paths, password \in Passwords,
          overwrite \in BOOLEAN, r, r2 \in Rand :
          Import(1, importPath, path, password, overwrite, r, r, r2, r2)
    \/ \E path \in Paths, password \in Passwords : Load(1, path, password)

SpecPort == InitPort /\ [][NextPort]_vars

-----------------------------------------------------------------------------
(* SpecAudit: process 1 calls auditLogger.log, on an audit file that is     *)
(* absent or that earlier calls have filled up to, or near, maxEntries.     *)

\* the audit file after n calls of log, one each millisecond
FilledAudit(n) ==
    [kind |-> "file", mode |-> OwnerOnly,
     logs |-> [i \in 1..n |-> LogEntry(i - 1, "vault_access", <<"Successfully accessed", "A">>,
                                       "success", 1)]]

\* the records of the file written since the model started
Appended(file) ==
    IF file.kind = "file" THEN {i \in DOMAIN file.logs : file.logs[i].timestamp.iso >= Epoch}
    ELSE {}

InitAudit ==
    /\ now = Epoch /\ fs = NoFiles /\ attemptsFile = NoFile
    /\ lockedBy = [p \in Paths |-> NoProc] /\ activeLocks = [p \in Procs |-> {}]
    /\ pc = [p \in Procs |-> "idle"] /\ loc = [p \in Procs |-> LocIdle]
    /\ last = NoCall /\ hist = NoHist
    /\ cx = CxOff
    /\ \E n \in {0, 1, maxEntries - 2, maxEntries - 1, maxEntries} :
          auditFile = IF n = 0 THEN NoFile ELSE FilledAudit(n)

\* auditLogger.log(action, details, result) by process pid
Log(pid, action, details, result) ==
    /\ Cardinality(Appended(auditFile)) < MaxLogs
    /\ pc[pid] = "idle"
    /\ auditFile' = AuditLog(auditFile, now, action, details, result, pid)
    /\ last' = [NoCall EXCEPT !.op = "log", !.pid = pid, !.t0 = now, !.aud0 = auditFile,
                              !.error = LogThrows(auditFile),
                              !.value = LogEntry(now, action, details, result, pid)]
    /\ UNCHANGED <<now, fs, attemptsFile, lockedBy, activeLocks, pc, loc, hist, cx>>

NextAudit ==
    \E action \in {"vault_access", "vault_create"}, path \in Paths,
       result \in {"success", "failure"} :
       Log(1, action, <<action, path>>, result)

SpecAudit == InitAudit /\ [][NextAudit]_vars

-----------------------------------------------------------------------------
(* SpecLogFaults: the vault of SpecPort, with an audit file that log cannot *)
(* use, or none; process 1 creates, opens, exports, imports and logs.       *)

\* the call c made again on the world it started in, with `aud` as the audit file
Replayed(c, aud, rs, ri) ==
    LET w == World(c.fs0, c.att0, aud, c.t0)
    IN CASE c.op = "createVault" -> CreateVault(w, c.pid, c.path, c.password, rs, ri)
         [] c.op = "loadVault" -> LoadVault(w, c.pid, c.path, c.password)
         [] c.op = "exportVault" -> ExportVault(w, c.pid, c.path, c.password, c.plainPath)
         [] c.op = "importVault" -> ImportVault(w, c.pid, c.plainPath, c.path, c.password,
                                                c.overwrite, rs, ri, rs, ri)

\* no call starts after this instant
InBudget == now < Epoch + MaxLogs * KdfMs

InitLogFaults ==
    /\ now = Epoch /\ attemptsFile = NoFile
    /\ lockedBy = [p \in Paths |-> NoProc] /\ activeLocks = [p \in Procs |-> {}]
    /\ pc = [p \in Procs |-> "idle"] /\ loc = [p \in Procs |-> LocIdle]
    /\ last = NoCall /\ hist = NoHist
    /\ cx = CxOff
    /\ \E k \in UnusableAudit \cup {"none"} : auditFile = IF k = "none" THEN NoFile ELSE [kind |-> k]
    /\ \E entries \in EntryMaps, exported \in BOOLEAN :
          LET vaultFile == SavedVault(Vault(entries, Epoch - TickMs, Epoch - TickMs),
                                      "correct-horse")
              f == [NoFiles EXCEPT !["A"] = vaultFile]
          IN fs = IF exported
                  THEN ExportVault(World(f, NoFile, CorruptAudit, Epoch - KdfMs), 1, "A",
                                   "correct-horse", "export.json").w.fs
                  ELSE f

NextLogFaults ==
    \/ \E password \in Passwords : InBudget /\ Create(1, "B", password, 1, 1)
    \/ \E path \in Paths, password \in Passwords : InBudget /\ Load(1, path, password)
    \/ \E password \in Passwords : InBudget /\ Export(1, "A", password, "export.json")
    \/ \E path \in Paths, overwrite \in BOOLEAN :
          InBudget /\ Import(1, "export.json", path, "wrong", overwrite, 1, 1, 1, 1)
    \/ \E result \in {"success", "failure"} :
          InBudget /\ Log(1, "vault_access", <<"vault_access", "A">>, result)

SpecLogFaults == InitLogFaults /\ [][NextLogFaults]_vars

-----------------------------------------------------------------------------
(* validation.js: validateEntryKey.  A key is a sequence of runs, each one  *)
(* character repeated n times.  Characters are named by themselves, or:     *)
(* TAB, LF, CR, NUL, BEL (U+0007) and e-acute (U+00E9).                     *)

Run(c, n) == [c |-> c, n |-> n]

\* the key that spells the characters of s
Text(s) == [i \in DOMAIN s |-> Run(s[i], 1)]

\* what String.prototype.trim removes, among the characters of the model
IsWhitespace(c) == c \in {" ", "TAB", "LF", "CR"}

\* the control characters (Unicode category Cc)
IsControl(c) == c \in {"TAB", "LF", "CR", "NUL", "BEL"}

\* the bytes the character takes in UTF-8
Utf8Width(c) == IF c = "e-acute" THEN 2 ELSE 1

\* key.length; every character of the model is one UTF-16 code unit
RECURSIVE KeyLength(_)
KeyLength(key) == IF key = <<>> THEN 0 ELSE Head(key).n + KeyLength(Tail(key))

\* Buffer.byteLength(key, 'utf8')
RECURSIVE KeyBytes(_)
KeyBytes(key) ==
    IF key = <<>> THEN 0 ELSE Head(key).n * Utf8Width(Head(key).c) + KeyBytes(Tail(key))

\* key.includes(c)
KeyIncludes(key, c) == \E i \in DOMAIN key : key[i].c = c

RECURSIVE TrimStart(_)
TrimStart(key) ==
    IF key = <<>> \/ ~IsWhitespace(Head(key).c) THEN key ELSE TrimStart(Tail(key))

RECURSIVE TrimEnd(_)
TrimEnd(key) ==
    IF key = <<>> \/ ~IsWhitespace(key[Len(key)].c) THEN key
    ELSE TrimEnd(SubSeq(key, 1, Len(key) - 1))

\* (mutant) only the start is trimmed
TrimmedAtStart(key) == TrimStart(key)

\* key.trim()
Trim(key) == TrimEnd(TrimStart(key))

MaxKeyLength == 255

\* ['\0', '\n', '\r']
invalidChars == {"NUL", "LF", "CR"}

Invalid(error) == [valid |-> FALSE, error |-> error]

\* validateEntryKey(key)
ValidateEntryKey(key) ==
    IF KeyLength(key) = 0 \/ KeyLength(Trim(key)) = 0
    THEN Invalid("Entry name cannot be empty")
    ELSE IF KeyLength(key) > MaxKeyLength
    THEN Invalid("Entry name too long (max 255 characters)")
    ELSE IF \E char \in invalidChars : KeyIncludes(key, char)
    THEN Invalid("Entry name contains invalid characters (null, newline)")
    ELSE IF Trim(key) # key
    THEN Invalid("Entry name cannot start or end with whitespace")
    ELSE [valid |-> TRUE, error |-> ""]

-----------------------------------------------------------------------------
(* SpecKeys: validateEntryKey applied to a key the user typed *)

KeyChars == {"a", " ", "TAB", "LF", "CR", "NUL", "BEL", "e-acute"}

RunLengths == {1, MaxKeyLength \div 2 + 1, MaxKeyLength - 1, MaxKeyLength, MaxKeyLength + 1}

RECURSIVE RunsUpTo(_)
RunsUpTo(k) ==
    IF k = 0 THEN {<<>>}
    ELSE RunsUpTo(k - 1)
         \cup {Append(key, Run(c, n)) : key \in RunsUpTo(k - 1), c \in KeyChars, n \in RunLengths}

\* the keys tried: those the specification names, and every key of at most MaxRuns runs
Keys ==
    {Text(<<"g", "i", "t", "h", "u", "b">>),
     Text(<<"e", "m", "a", "i", "l", "-", "w", "o", "r", "k">>),
     Text(<<" ", "l", "e", "a", "d", "i", "n", "g">>),
     Text(<<"a", "TAB", "b">>), Text(<<"a", "BEL", "b">>), Text(<<"a", " ", "b">>)}
    \cup RunsUpTo(MaxRuns)

InitKeys ==
    /\ now = Epoch /\ fs = NoFiles /\ attemptsFile = NoFile /\ auditFile = NoFile
    /\ lockedBy = [p \in Paths |-> NoProc] /\ activeLocks = [p \in Procs |-> {}]
    /\ pc = [p \in Procs |-> "idle"] /\ loc = [p \in Procs |-> LocIdle]
    /\ hist = NoHist /\ cx = CxOff
    /\ \E key \in Keys : last = [NoCall EXCEPT !.op = "promptInput", !.key = key]

\* validateEntryKey(key) on the key typed
ValidateKey ==
    /\ last.op = "promptInput"
    /\ last' = [last EXCEPT !.op = "validateEntryKey", !.value = ValidateEntryKey(last.key)]
    /\ UNCHANGED <<now, fs, attemptsFile, auditFile, lockedBy, activeLocks, pc, loc, hist, cx>>

NextKeys == ValidateKey

SpecKeys == InitKeys /\ [][NextKeys]_vars


-----------------------------------------------------------------------------
(* index.js: handleNuke, and vault.js: nukeVault, step by step *)

\* the text of the config file that names vaultPath
ConfigText(path) == JsonStringify(Obj([vaultPath |-> Str(path)]))

\* getVaultPath(): config?.vaultPath
GetVaultPath(f) == JsonParse(f[CONFIG_FILE].text).obj.vaultPath.s

\* `size` bytes: the outcome r of crypto.randomBytes, or 0 for Buffer.alloc(size, 0)
Bytes(size, fill) == [j |-> "invalid", n |-> size, fill |-> fill]

\* (mutant) any answer confirms
ConfirmedByAnything(confirmation) == TRUE

\* confirmation === 'NUKE'
Confirmed(confirmation) == confirmation = "NUKE"

\* (mutant) the second overwrite leaves the file as it is
NotZeroed(file, size) == file

\* fs.writeFile(vaultPath, Buffer.alloc(size, 0))
Zeroed(file, size) == WriteFile(file, Bytes(size, 0), OwnerOnly)

\* the catch block of nukeVault throws; that of handleNuke shows the error and returns
NukeFails(pid, l, message) ==
    Return(pid, [l EXCEPT !.calls = @ \o <<"throw:nukeVault">>],
           Err("Error", MsgNukeFailedPrefix \o message))

\* the nuke command starts: getVaultPath(), the warnings, the password prompt
NukeCommand(pid) ==
    /\ pc[pid] = "idle"
    /\ Exists(fs[CONFIG_FILE])
    /\ Goto(pid, Began("handleNuke", GetVaultPath(fs), GetVaultPath(fs), "wrong"), "nukeVerify")
    /\ UNCHANGED <<now, fs, attemptsFile, auditFile, lockedBy, activeLocks, hist, cx>>

\* the password is typed and loadVault(vaultPath, password) verifies it
NukeVerify(pid, password) ==
    /\ pc[pid] = "nukeVerify"
    /\ AuditLen(auditFile) < MaxLogs
    /\ LET l == [loc[pid] EXCEPT !.password = password]
           out == LoadVault(world, pid, l.path, password)
       IN /\ Becomes(out.w)
          /\ hist' = Attempted(out)
          /\ IF Threw(out.error)
             THEN Return(pid, [l EXCEPT !.calls = @ \o out.calls \o <<"throw:loadVault">>],
                         out.error)
             ELSE Goto(pid, [l EXCEPT !.calls = @ \o out.calls], "nukeType")
    /\ UNCHANGED <<lockedBy, activeLocks, cx>>

\* promptInput('Type "NUKE" to confirm deletion')
NukeType(pid, confirmation) ==
    /\ pc[pid] = "nukeType"
    /\ LET l == [loc[pid] EXCEPT !.typed = confirmation,
                                 !.calls = @ \o <<"promptInput">>]
       IN IF Confirmed(confirmation)
          THEN Goto(pid, l, "nukeConfirm")
          ELSE Return(pid, [l EXCEPT !.warned = TRUE], NoError)
    /\ UNCHANGED <<now, fs, attemptsFile, auditFile, lockedBy, activeLocks, hist, cx>>

\* promptConfirm('Are you absolutely sure?')
NukeConfirm(pid, finalConfirm) ==
    /\ pc[pid] = "nukeConfirm"
    /\ LET l == [loc[pid] EXCEPT !.confirmed = finalConfirm,
                                 !.calls = @ \o <<"promptConfirm">>]
       IN IF finalConfirm
          THEN Goto(pid, l, "nukeStat")
          ELSE Return(pid, [l EXCEPT !.warned = TRUE], NoError)
    /\ UNCHANGED <<now, fs, attemptsFile, auditFile, lockedBy, activeLocks, hist, cx>>

\* nukeVault(vaultPath) starts: fs.stat(vaultPath).size
NukeStat(pid) ==
    /\ pc[pid] = "nukeStat"
    /\ LET l == [loc[pid] EXCEPT !.calls = @ \o <<"stat">>]
       IN IF Exists(fs[l.path])
          THEN Goto(pid, [l EXCEPT !.size = Size(fs[l.path])], "nukeRandom")
          ELSE NukeFails(pid, l, MsgNoSuchFile)
    /\ UNCHANGED <<now, fs, attemptsFile, auditFile, lockedBy, activeLocks, hist, cx>>

\* fs.writeFile(vaultPath, crypto.randomBytes(size)), which can fail
NukeRandom(pid, r, ok) ==
    /\ pc[pid] = "nukeRandom"
    /\ LET l == [loc[pid] EXCEPT !.calls = @ \o <<"writeFile:random">>]
       IN IF ok
          THEN /\ fs' = [fs EXCEPT ![l.path] = WriteFile(@, Bytes(l.size, r), OwnerOnly)]
               /\ Goto(pid, l, "nukeZero")
          ELSE /\ fs' = fs
               /\ NukeFails(pid, l, MsgWriteFailed)
    /\ UNCHANGED <<now, attemptsFile, auditFile, lockedBy, activeLocks, hist, cx>>

\* fs.writeFile(vaultPath, Buffer.alloc(size, 0)), which can fail
NukeZero(pid, ok) ==
    /\ pc[pid] = "nukeZero"
    /\ LET l == [loc[pid] EXCEPT !.calls = @ \o <<"writeFile:zero">>]
       IN IF ok
          THEN /\ fs' = [fs EXCEPT ![l.path] = Zeroed(@, l.size)]
               /\ Goto(pid, l, "nukeUnlink")
          ELSE /\ fs' = fs
               /\ NukeFails(pid, l, MsgWriteFailed)
    /\ UNCHANGED <<now, attemptsFile, auditFile, lockedBy, activeLocks, hist, cx>>

\* fs.unlink(vaultPath), which can fail
NukeUnlink(pid, ok) ==
    /\ pc[pid] = "nukeUnlink"
    /\ LET l == [loc[pid] EXCEPT !.calls = @ \o <<"unlink">>]
       IN IF ok
          THEN /\ fs' = Unlink(fs, l.path)
               /\ Goto(pid, l, "nukeConfig")
          ELSE /\ fs' = fs
               /\ NukeFails(pid, l, MsgUnlinkFailed)
    /\ UNCHANGED <<now, attemptsFile, auditFile, lockedBy, activeLocks, hist, cx>>

\* deleteConfig() and process.exit(0)
NukeDeleteConfig(pid) ==
    /\ pc[pid] = "nukeConfig"
    /\ fs' = Unlink(fs, CONFIG_FILE)
    /\ Exit(pid, [loc[pid] EXCEPT !.calls = @ \o <<"deleteConfig">>], NoError)
    /\ UNCHANGED <<now, attemptsFile, auditFile, lockedBy, activeLocks, hist, cx>>

-----------------------------------------------------------------------------
(* SpecNuke: a vault at A and a config file that names A, or B where there  *)
(* is none; process 1 runs the nuke command, again after it was cancelled.  *)

InitNuke ==
    /\ now = Epoch /\ attemptsFile = NoFile /\ auditFile = NoFile
    /\ lockedBy = [p \in Paths |-> NoProc] /\ activeLocks = [p \in Procs |-> {}]
    /\ pc = [p \in Procs |-> "idle"] /\ loc = [p \in Procs |-> LocIdle]
    /\ last = NoCall /\ hist = NoHist
    /\ cx = CxOff
    /\ \E entries \in EntryMaps, path \in Paths :
          fs = [NoFiles EXCEPT
                   !["A"] = SavedVault(Vault(entries, Epoch - TickMs, Epoch - TickMs),
                                       "correct-horse"),
                   ![CONFIG_FILE] = File(ConfigText(path), OwnerOnly)]

NextNuke ==
    \/ NukeCommand(1)
    \/ \E password \in Passwords : NukeVerify(1, password)
    \/ \E confirmation \in {"NUKE", "nuke", ""} : NukeType(1, confirmation)
    \/ \E finalConfirm \in BOOLEAN : NukeConfirm(1, finalConfirm)
    \/ NukeStat(1)
    \/ \E r \in Rand, ok \in BOOLEAN : NukeRandom(1, r, ok)
    \/ \E ok \in BOOLEAN : NukeZero(1, ok)
    \/ \E ok \in BOOLEAN : NukeUnlink(1, ok)
    \/ NukeDeleteConfig(1)

SpecNuke == InitNuke /\ [][NextNuke]_vars

-----------------------------------------------------------------------------
(* SpecSeal: the vault of SpecPort and an export of it; process 1 creates,  *)
(* saves, rekeys and imports. hist counts the crypto.randomBytes draws made *)
(* so far and lists the envelopes written, each with the envelope that was  *)
(* at its path before it.                                                   *)

\* the outcome of the k-th crypto.randomBytes draw of a given length: the generator is
\* taken not to repeat an outcome
Drawn(k) == k

\* what a vault file holds as salt and iv, if it is an envelope
Sealing(file) ==
    IF Exists(file) /\ file.text.j # "invalid"
    THEN [salt |-> Get(Envelope(file), "salt"), iv |-> Get(Envelope(file), "iv")]
    ELSE Undefined

\* the envelope `after` written over the file `before`
Write(before, after) == [sealing |-> Sealing(after), over |-> Sealing(before)]

\* a call of process pid ends with outcome out, after n seals that wrote `envelopes`
Sealed(op, pid, path, password, out, n, envelopes) ==
    /\ pc[pid] = "idle"
    /\ hist.ops < MaxSeals
    /\ Becomes(out.w)
    /\ last' = Called(op, pid, path, password, out)
    /\ hist' = [hist EXCEPT !.ops = @ + 1, !.draws = @ + 2 * n,
                            !.written = @ \o envelopes]
    /\ UNCHANGED <<lockedBy, activeLocks, pc, loc, cx>>

SealCreate(pid, path, password) ==
    LET out == CreateVault(world, pid, path, password,
                           Drawn(hist.draws + 1), Drawn(hist.draws + 2))
    IN Sealed("createVault", pid, path, password, out, 1,
              <<Write(fs[path], out.w.fs[path])>>)

SealSave(pid, path, password, vault) ==
    LET out == SaveVault(world, pid, path, password, vault,
                         Drawn(hist.draws + 1), Drawn(hist.draws + 2))
    IN Sealed("saveVault", pid, path, password, out, 1,
              <<Write(fs[path], out.w.fs[path])>>)

SealRekey(pid, path, oldPassword, newPassword) ==
    LET out == ChangeMasterPassword(world, pid, path, oldPassword, newPassword,
                                    Drawn(hist.draws + 1), Drawn(hist.draws + 2))
        sealed == \E i \in DOMAIN out.calls : out.calls[i] = "encryptJson"
    IN Sealed("changeMasterPassword", pid, path, oldPassword, out,
              IF sealed THEN 1 ELSE 0,
              IF sealed THEN <<Write(fs[path], out.w.fs[path])>> ELSE <<>>)

SealImport(pid, importPath, path, password, overwrite) ==
    LET out == ImportVault(world, pid, importPath, path, password, overwrite,
                           Drawn(hist.draws + 1), Drawn(hist.draws + 2),
                           Drawn(hist.draws + 3), Drawn(hist.draws + 4))
        created == CreateVault(world, pid, path, password,
                               Drawn(hist.draws + 1), Drawn(hist.draws + 2)).w.fs[path]
        sealed == \E i \in DOMAIN out.calls : out.calls[i] = "encryptJson"
    IN Sealed("importVault", pid, path, password, out,
              IF sealed THEN 2 ELSE 0,
              IF sealed THEN <<Write(fs[path], created), Write(created, out.w.fs[path])>>
              ELSE <<>>)

InitSeal ==
    /\ now = Epoch /\ attemptsFile = NoFile /\ auditFile = NoFile
    /\ lockedBy = [p \in Paths |-> NoProc] /\ activeLocks = [p \in Procs |-> {}]
    /\ pc = [p \in Procs |-> "idle"] /\ loc = [p \in Procs |-> LocIdle]
    /\ last = NoCall
    /\ hist = [ops |-> 0, draws |-> 1, written |-> <<>>]
    /\ cx = CxOff
    /\ \E entries \in EntryMaps :
          LET sealed == SavedVault(Vault(entries, Epoch - TickMs, Epoch - TickMs),
                                   "correct-horse")
              f == [NoFiles EXCEPT !["A"] = sealed]
          IN fs = ExportVault(World(f, NoFile, NoFile, Epoch - TickMs), 1, "A",
                              "correct-horse", "export.json").w.fs

NextSeal ==
    \/ \E password \in Passwords : SealCreate(1, "B", password)
    \/ \E path \in Paths, V \in Vaults : SealSave(1, path, "correct-horse", V)
    \/ \E oldPassword, newPassword \in Passwords :
          SealRekey(1, "A", oldPassword, newPassword)
    \/ \E path \in Paths, overwrite \in BOOLEAN :
          SealImport(1, "export.json", path, "wrong", overwrite)

SpecSeal == InitSeal /\ [][NextSeal]_vars

-----------------------------------------------------------------------------
(* SpecStamp: a vault at A; two processes save it, one call each, while the *)
(* clock ticks.                                                             *)

\* what the file holds, opened with the password of the vault
Persisted(file) ==
    IF Exists(file) /\ file.text.j # "invalid"
    THEN DecryptJson(Envelope(file), "correct-horse")
    ELSE Failure("readFile")

\* Date.parse of a timestamp of a vault
StampOf(vault, field) == vault.obj[field].iso

InitStamp ==
    /\ InitIdle
    /\ cx = CxOff
    /\ fs = [NoFiles EXCEPT !["A"] = InstalledVault["A"]]

NextStamp ==
    \/ now < Epoch + MaxStampTicks * TickMs /\ Tick
    \/ \E pid \in Procs, vault \in Vaults : SaveStart(pid, "A", "correct-horse", vault)
    \/ \E pid \in Procs : SaveLock(pid)
    \/ \E pid \in Procs : SaveSeal(pid, 1, 1)
    \/ \E pid \in Procs : SaveWriteBegin(pid)
    \/ \E pid \in Procs : SaveWriteEnd(pid, FALSE)
    \/ \E pid \in Procs : SaveRelease(pid)

SpecStamp == InitStamp /\ [][NextStamp]_vars

-----------------------------------------------------------------------------
(* SpecWipe: seal a vault, change the envelope, open it, where the key      *)
(* derivation can fail; last holds the buffers of the call when it ended.   *)

\* encryptJson(V, P)
EncryptCall(rs, ri, derived) ==
    /\ cx.stage = "input"
    /\ cx' = IF derived
             THEN [cx EXCEPT !.stage = "sealed", !.sealed = EncryptJson(cx.V, cx.P, rs, ri),
                             !.env = EncryptJson(cx.V, cx.P, rs, ri)]
             ELSE [cx EXCEPT !.stage = "failed"]
    /\ last' = [NoCall EXCEPT !.op = "encryptJson", !.password = cx.P,
                              !.error = IF derived THEN NoError
                                        ELSE Err("Error", MsgSealFailed),
                              !.value = EncryptJsonHeap(cx.V, cx.P, rs, ri, derived)]
    /\ UNCHANGED <<now, fs, attemptsFile, auditFile, lockedBy, activeLocks, pc, loc, hist>>

\* decryptJson(envelope, password)
DecryptCall(password, derived) ==
    /\ cx.stage = "sealed"
    /\ LET res == IF derived THEN DecryptJson(cx.env, password) ELSE Failure("scrypt")
       IN /\ cx' = [cx EXCEPT !.stage = "opened", !.P2 = password, !.res = res]
          /\ last' = [NoCall EXCEPT !.op = "decryptJson", !.password = password,
                                    !.error = res.error,
                                    !.value = DecryptJsonHeap(cx.env, password, derived)]
    /\ UNCHANGED <<now, fs, attemptsFile, auditFile, lockedBy, activeLocks, pc, loc, hist>>

NextWipe ==
    \/ \E r \in Rand, derived \in BOOLEAN : EncryptCall(r, r, derived)
    \/ \E f \in EnvelopeFields : \E i \in {1, 2} : CxFlipByte(f, i)
    \/ \E f \in EnvelopeFields : CxTruncate(f, 0)
    \/ \E f \in EnvelopeFields : CxRemoveField(f)
    \/ \E password \in Passwords, derived \in BOOLEAN : DecryptCall(password, derived)

SpecWipe == InitCrypto /\ [][NextWipe]_vars

-----------------------------------------------------------------------------
(* vault.js: loadVault, in two steps: waitIfNeeded reads the throttle state *)
(* and sleeps; when it wakes, the file is read and decrypted.               *)

\* loadVault starts: waitIfNeeded reads the attempts file and sets the timer
OpenStart(pid, path, password) ==
    /\ pc[pid] = "idle"
    /\ LET l == Began("loadVault", path, path, password)
           wait == WaitIfNeeded(attemptsFile, now)
       IN IF Threw(wait.error)
          THEN Return(pid, [l EXCEPT !.calls = <<"waitIfNeeded">>], wait.error)
          ELSE Goto(pid, [l EXCEPT !.wake = wait.t], "openWait")
    /\ UNCHANGED <<now, fs, attemptsFile, auditFile, lockedBy, activeLocks, hist, cx>>

\* the timer has fired (or none was set): the rest of loadVault
OpenDecrypt(pid) ==
    /\ pc[pid] = "openWait"
    /\ now >= loc[pid].wake
    /\ LET l == loc[pid]
           out == LoadVaultRead(world, pid, l.path, l.password)
       IN /\ Becomes(out.w)
          /\ hist' = Attempted(out)
          /\ Return(pid, [l EXCEPT !.calls = out.calls, !.vault = out.value], out.error)
    /\ UNCHANGED <<lockedBy, activeLocks, cx>>

-----------------------------------------------------------------------------
(* SpecOpen: a vault at A; two processes open it, with the right password   *)
(* and with a wrong one, while the clock ticks.                             *)

InOpenBudget == now < Epoch + MaxOpenTicks * TickMs

InitOpen ==
    /\ InitIdle
    /\ cx = CxOff
    /\ fs = [NoFiles EXCEPT !["A"] = InstalledVault["A"]]

NextOpen ==
    \/ InOpenBudget /\ Tick
    \/ \E pid \in Procs, password \in Passwords : InOpenBudget /\ OpenStart(pid, "A", password)
    \/ \E pid \in Procs : OpenDecrypt(pid)

SpecOpen == InitOpen /\ [][NextOpen]_vars

-----------------------------------------------------------------------------
(* SpecModes: a vault at A, an export of it, and files at B, at the throttle *)
(* path and at the audit path that are absent or were made by someone else  *)
(* with mode 0644; process 1 creates, opens, imports and moves, process 2   *)
(* saves.                                                                   *)

Modes == {OwnerOnly, WorldReadable}

InitModes ==
    /\ now = Epoch
    /\ lockedBy = [p \in Paths |-> NoProc] /\ activeLocks = [p \in Procs |-> {}]
    /\ pc = [p \in Procs |-> "idle"] /\ loc = [p \in Procs |-> LocIdle]
    /\ last = NoCall /\ hist = NoHist
    /\ cx = CxOff
    /\ \E mode \in Modes, taken, throttled, audited \in BOOLEAN :
          LET sealed == SavedVault(Vault(<<>>, Epoch - TickMs, Epoch - TickMs),
                                   "correct-horse")
              f == [NoFiles EXCEPT !["A"] = [sealed EXCEPT !.mode = mode]]
              exported == ExportVault(World(f, NoFile, NoFile, Epoch - TickMs), 1, "A",
                                      "correct-horse", "export.json").w
          IN /\ fs = [exported.fs EXCEPT
                         !["B"] = IF taken THEN File(InvalidText(0), mode) ELSE NoFile]
             /\ attemptsFile =
                   IF throttled
                   THEN [SaveAttempts(NoFile, GetAttempts(NoFile)) EXCEPT !.mode = mode]
                   ELSE NoFile
             /\ auditFile = IF audited THEN [kind |-> "file", logs |-> <<>>, mode |-> mode]
                            ELSE NoFile

\* no call starts after this instant
InModesBudget == now < Epoch + MaxModesCalls * KdfMs

NextModes ==
    \/ \E path \in Paths : InModesBudget /\ Create(1, path, "correct-horse", 1, 1)
    \/ \E password \in Passwords : InModesBudget /\ Load(1, "A", password)
    \/ \E overwrite \in BOOLEAN :
          InModesBudget /\ Import(1, "export.json", "B", "correct-horse", overwrite, 1, 1, 1, 1)
    \/ \E writable \in BOOLEAN :
          InModesBudget /\ MoveStart(1, "A", "B", "correct-horse", writable)
    \/ MoveCopy(1)
    \/ CorruptCopy(1)
    \/ MoveVerify(1)
    \/ \E removed \in BOOLEAN : MoveUnlinkOld(1, removed)
    \/ \E removed \in BOOLEAN : MoveRollback(1, removed)
    \/ InModesBudget /\ SaveStart(2, "A", "correct-horse", Vault(<<>>, Epoch - TickMs, Epoch))
    \/ SaveLock(2)
    \/ SaveSeal(2, 1, 1)
    \/ SaveWriteBegin(2)
    \/ SaveWriteEnd(2, FALSE)
    \/ SaveRelease(2)

SpecModes == InitModes /\ [][NextModes]_vars

-----------------------------------------------------------------------------
(* SpecRelocate: the vault of SpecMove; process 1 moves it from A to B      *)
(* while process 2 creates a vault at B.                                    *)

NextRelocate ==
    \/ \E writable \in BOOLEAN : MoveStart(1, "A", "B", "correct-horse", writable)
    \/ MoveCopy(1)
    \/ MoveVerify(1)
    \/ \E removed \in BOOLEAN : MoveUnlinkOld(1, removed)
    \/ \E removed \in BOOLEAN : MoveRollback(1, removed)
    \/ Create(2, "B", "wrong", 2, 2)

SpecRelocate == InitMove /\ [][NextRelocate]_vars

(* ------------------------------------------------------------------------------------ *)
(* Opening a vault while the attempts file cannot be read or written                     *)
(* ------------------------------------------------------------------------------------ *)

\* the attempts file as another program or a fault left it: not readable by this user,
\* holding the text `locked out` instead of JSON (with either message JSON.parse gives
\* for it), or readable and not writable
FaultyAttempts ==
    {[kind |-> "unreadable"],
     [kind |-> "corrupt", message |-> MsgJsonTokenAt],
     [kind |-> "corrupt", message |-> MsgJsonQuotedText],
     [kind |-> "readonly", mode |-> 292,
      data |-> [lastAttempt |-> Epoch - 2 * minDelayMs, failedAttempts |-> 3,
                lockedUntil |-> 0]]}

InitThrottleFaults ==
    /\ now = Epoch
    /\ fs = InstalledVault
    /\ attemptsFile \in FaultyAttempts
    /\ auditFile = CorruptAudit
    /\ lockedBy = [p \in Paths |-> NoProc]
    /\ activeLocks = [p \in Procs |-> {}]
    /\ pc = [p \in Procs |-> "idle"]
    /\ loc = [p \in Procs |-> LocIdle]
    /\ last = NoCall
    /\ hist = NoHist
    /\ cx = CxOff

NextThrottleFaults ==
    \/ InOpenBudget /\ Tick
    \/ \E path \in {"A", "B"}, password \in Passwords : InOpenBudget /\ Load(1, path, password)

SpecThrottleFaults == InitThrottleFaults /\ [][NextThrottleFaults]_vars

(* ------------------------------------------------------------------------------------ *)
(* SpecGuard: process 1 saves the vault at A step by step, under the lock, while         *)
(* process 2 runs `init` on the same path                                                *)
(* ------------------------------------------------------------------------------------ *)

NextGuard ==
    \/ \E vault \in Vaults : SaveStart(1, "A", "correct-horse", vault)
    \/ SaveLock(1)
    \/ SaveSeal(1, 1, 1)
    \/ SaveWriteBegin(1)
    \/ SaveWriteEnd(1, FALSE)
    \/ SaveRelease(1)
    \/ \E password \in Passwords : Create(2, "A", password, 2, 2)

SpecGuard == InitContend /\ [][NextGuard]_vars

(* ------------------------------------------------------------------------------------ *)
(* SpecCount: two processes open the vault at A with a wrong password; recordFailure    *)
(* runs in its steps, getAttempts and then saveAttempts.  hist.fails counts the          *)
(* decryptions that failed.                                                              *)
(* ------------------------------------------------------------------------------------ *)

\* the timer has fired (or none was set): the file is read and decryptJson throws
DecryptFails(pid) ==
    /\ pc[pid] = "openWait"
    /\ now >= loc[pid].wake
    /\ LET l == loc[pid]
           out == LoadVaultRead(world, pid, l.path, l.password)
       IN /\ Threw(out.error)
          /\ \E i \in DOMAIN out.calls : out.calls[i] = "recordFailure"
          /\ now' = out.w.t
          /\ hist' = [hist EXCEPT !.fails = @ + 1]
          /\ Goto(pid, [l EXCEPT !.error = out.error, !.calls = out.calls], "recordRead")
    /\ UNCHANGED <<fs, attemptsFile, auditFile, lockedBy, activeLocks, cx>>

\* recordFailure up to its await of saveAttempts: getAttempts, Date.now, the decay, the
\* count and the lockout, all on the object that getAttempts returned
RecordRead(pid) ==
    /\ pc[pid] = "recordRead"
    /\ attemptsFile.kind \in {"none", "file"}
    /\ Goto(pid, [loc[pid] EXCEPT !.attempts = FailureRecorded(GetAttempts(attemptsFile), now)],
            "recordWrite")
    /\ UNCHANGED <<now, fs, attemptsFile, auditFile, lockedBy, activeLocks, hist, cx>>

\* saveAttempts writes the object; then the failure is logged and the error thrown on
RecordWrite(pid) ==
    /\ pc[pid] = "recordWrite"
    /\ attemptsFile' = SaveAttempts(attemptsFile, loc[pid].attempts)
    /\ auditFile' = AuditLog(auditFile, now, "vault_access",
                             <<"Failed to access", loc[pid].path>>, "failure", pid)
    /\ Return(pid, loc[pid], loc[pid].error)
    /\ UNCHANGED <<now, fs, lockedBy, activeLocks, hist, cx>>

\* failed opens the model follows
MaxCount == 3

NextCount ==
    \/ InOpenBudget /\ Tick
    \/ \E pid \in Procs : hist.fails < MaxCount /\ OpenStart(pid, "A", "wrong")
    \/ \E pid \in Procs : DecryptFails(pid)
    \/ \E pid \in Procs : RecordRead(pid)
    \/ \E pid \in Procs : RecordWrite(pid)

SpecCount == InitThrottle /\ [][NextCount]_vars

(* ------------------------------------------------------------------------------------ *)
(* SpecShare: two processes run `add` on the vault at A: each opens it, sets one entry   *)
(* of the vault it holds and saves that vault.  hist[p] is the vault process p passed    *)
(* to saveVault.                                                                         *)
(* ------------------------------------------------------------------------------------ *)

\* vault.entries[key] = entry
WithEntry(vault, key, entry) ==
    [vault EXCEPT !.obj.entries.obj = (key :> entry) @@ @]

\* handleAdd up to its prompts: getVaultPath, promptPassword, loadVault
AddOpen(pid, path, password) ==
    /\ pc[pid] = "idle"
    /\ LET out == LoadVault(world, pid, path, password)
           l == [Began("handleAdd", path, path, password)
                    EXCEPT !.vault = out.value, !.calls = out.calls]
       IN /\ Becomes(out.w)
          /\ IF Threw(out.error) THEN Exit(pid, l, out.error)
             ELSE Goto(pid, l, "addPrompt")
    /\ UNCHANGED <<lockedBy, activeLocks, hist, cx>>

\* the characters of the entry names of the model
Spelled(name) ==
    CASE name = "github" -> Text(<<"g", "i", "t", "h", "u", "b">>)
      [] name = "email-work" -> Text(<<"e", "m", "a", "i", "l", "-", "w", "o", "r", "k">>)
      [] name = "" -> Text(<<>>)
      [] name = " leading" -> Text(<<" ", "l", "e", "a", "d", "i", "n", "g">>)
      [] name = "a\tb" -> Text(<<"a", "TAB", "b">>)

\* the key is typed, again until validateEntryKey accepts it, and then the entry; an
\* existing key is overwritten only when confirmed; then saveVault starts and stamps
\* the vault
AddEntry(pid, key, entry, overwrite) ==
    /\ pc[pid] = "addPrompt"
    /\ ValidateEntryKey(Spelled(key)).valid
    /\ LET l == loc[pid]
           vault == StampUpdatedAt(WithEntry(l.vault, key, entry), now)
       IN IF key \in DOMAIN l.vault.obj.entries.obj /\ ~overwrite
          THEN /\ Exit(pid, [l EXCEPT !.warned = TRUE], NoError)
               /\ hist' = hist
          ELSE /\ Goto(pid, [l EXCEPT !.vault = vault], "saveLock")
               /\ hist' = [hist EXCEPT ![pid] = vault]
    /\ UNCHANGED <<now, fs, attemptsFile, auditFile, lockedBy, activeLocks, cx>>

InitShare ==
    /\ now = Epoch
    /\ attemptsFile = NoFile
    /\ auditFile = NoFile
    /\ lockedBy = [p \in Paths |-> NoProc]
    /\ activeLocks = [p \in Procs |-> {}]
    /\ pc = [p \in Procs |-> "idle"]
    /\ loc = [p \in Procs |-> LocIdle]
    /\ last = NoCall
    /\ hist = [p \in Procs |-> Undefined]
    /\ cx = CxOff
    /\ \E e \in EntryMaps :
          fs = SaveVault(World(NoFiles, NoFile, NoFile, Epoch - KdfMs), 1, "A",
                         "correct-horse", Vault(e, Epoch - TickMs, Epoch - TickMs), 1, 1).w.fs

NextShare ==
    \/ \E pid \in Procs, password \in Passwords : AddOpen(pid, "A", password)
    \/ \E pid \in Procs, key \in {"github", "email-work"}, overwrite \in BOOLEAN :
          AddEntry(pid, key, Entry("hunter2", ""), overwrite)
    \/ \E pid \in Procs : SaveLock(pid)
    \/ \E pid \in Procs : SaveSeal(pid, 1, 1)
    \/ \E pid \in Procs : SaveSealFails(pid)
    \/ \E pid \in Procs : SaveWriteBegin(pid)
    \/ \E pid \in Procs : SaveWriteFails(pid)
    \/ \E pid \in Procs, torn \in BOOLEAN : SaveWriteEnd(pid, torn)
    \/ \E pid \in Procs : SaveRelease(pid)

SpecShare == InitShare /\ [][NextShare]_vars

(* ------------------------------------------------------------------------------------ *)
(* importVault step by step: the checks and createVault, then saveVault in its steps,    *)
(* then the audit record.  SpecRestore: process 1 imports export.json to A, where a      *)
(* vault is or is not, while process 2 may save the vault at A.                          *)
(* ------------------------------------------------------------------------------------ *)

\* importVault up to its call of saveVault: the import file is read and checked, the
\* destination is checked, createVault writes an empty vault, saveVault stamps the vault
ImportStart(pid, importPath, path, password, overwrite, rs, ri) ==
    /\ pc[pid] = "idle"
    /\ LET l == Began("importVault", path, path, password)
           early == \/ ~Exists(fs[importPath])
                    \/ fs[importPath].text.j = "invalid"
                    \/ InvalidImport(JsonParse(fs[importPath].text))
                    \/ DestinationTaken(fs, path, overwrite)
           out == ImportVault(world, pid, importPath, path, password, overwrite, rs, ri, rs, ri)
           created == CreateVault(world, pid, path, password, rs, ri)
           vault == ImportedVault(Get(JsonParse(fs[importPath].text), "entries"), now,
                                  importPath)
       IN IF early
          THEN /\ Becomes(out.w)
               /\ Exit(pid, [l EXCEPT !.calls = out.calls], out.error)
          ELSE /\ Becomes(created.w)
               /\ Goto(pid, [l EXCEPT !.vault = StampUpdatedAt(vault, created.w.t),
                                      !.text = importPath,
                                      !.calls = <<"readFile", "access">> \o created.calls],
                       "saveLock")
    /\ UNCHANGED <<lockedBy, activeLocks, hist, cx>>

\* saveVault has returned or thrown: the import is logged, and an error is thrown on as
\* 'Failed to import vault: ...'
ImportLog(pid) ==
    /\ pc[pid] = "importLog"
    /\ LET l == loc[pid]
       IN IF Threw(l.error)
          THEN /\ auditFile' = AuditLog(auditFile, now, "vault_import",
                                        <<"Failed to import vault from", l.text>>,
                                        "failure", pid)
               /\ Exit(pid, [l EXCEPT !.calls = @ \o <<"log:failure">>],
                       Wrapped(MsgImportFailedPrefix, l.error))
          ELSE /\ auditFile' = AuditLog(auditFile, now, "vault_import",
                                        <<"Imported vault from", l.text, l.path>>,
                                        "success", pid)
               /\ Exit(pid, [l EXCEPT !.calls = @ \o <<"log:success">>], NoError)
    /\ UNCHANGED <<now, fs, attemptsFile, lockedBy, activeLocks, hist, cx>>

InitRestore ==
    /\ InitIdle
    /\ cx = CxOff
    /\ \E entries \in EntryMaps, taken \in BOOLEAN :
          fs = [NoFiles EXCEPT
                   !["A"] = IF taken
                            THEN SavedVault(Vault(entries, Epoch - TickMs, Epoch - TickMs),
                                            "correct-horse")
                            ELSE NoFile,
                   !["export.json"] =
                       File(JsonStringify(ExportData(Vault(entries, Epoch - TickMs,
                                                            Epoch - TickMs), Epoch - TickMs, "A")),
                            OwnerOnly)]

NextRestore ==
    \/ \E overwrite \in BOOLEAN :
          ImportStart(1, "export.json", "A", "correct-horse", overwrite, 1, 1)
    \/ \E vault \in Vaults : SaveStart(2, "A", "correct-horse", vault)
    \/ \E pid \in Procs : SaveLock(pid)
    \/ \E pid \in Procs : SaveSeal(pid, 2, 2)
    \/ \E pid \in Procs : SaveSealFails(pid)
    \/ \E pid \in Procs : SaveWriteBegin(pid)
    \/ \E pid \in Procs : SaveWriteFails(pid)
    \/ \E pid \in Procs, torn \in BOOLEAN : SaveWriteEnd(pid, torn)
    \/ \E pid \in Procs : SaveRelease(pid)
    \/ ImportLog(1)

SpecRestore == InitRestore /\ [][NextRestore]_vars

(* ------------------------------------------------------------------------------------ *)
(* SpecJournal: two processes call AuditLogger.log, which runs in its steps: the file is *)
(* read, the record is pushed on the array in memory, the array is written.  hist is the *)
(* set of records whose log call has returned.                                           *)
(* ------------------------------------------------------------------------------------ *)

\* log up to its await of writeFile: readFile and JSON.parse (no file: an empty array),
\* the record is pushed and the array cut to the most recent maxEntries
LogRead(pid, action, details, result) ==
    /\ pc[pid] = "idle"
    /\ AuditLen(auditFile) < MaxLogs
    /\ auditFile.kind \in {"none", "file"}
    /\ LET existingLogs == IF Exists(auditFile) THEN auditFile.logs ELSE <<>>
           pushed == Append(existingLogs, LogEntry(now, action, details, result, pid))
           kept == IF Len(pushed) > maxEntries THEN LastN(pushed, maxEntries) ELSE pushed
       IN Goto(pid, [LocIdle EXCEPT !.op = "log", !.existingLogs = kept, !.t0 = now,
                                    !.aud0 = auditFile,
                                    !.vault = LogEntry(now, action, details, result, pid)],
               "logWrite")
    /\ UNCHANGED <<now, fs, attemptsFile, auditFile, lockedBy, activeLocks, hist, cx>>

\* fs.writeFile(auditFile, JSON.stringify(existingLogs, null, 2), { mode: 0o600 })
LogWrite(pid) ==
    /\ pc[pid] = "logWrite"
    /\ auditFile' = IF Exists(auditFile) THEN [auditFile EXCEPT !.logs = loc[pid].existingLogs]
                    ELSE [kind |-> "file", logs |-> loc[pid].existingLogs, mode |-> OwnerOnly]
    /\ hist' = hist \cup {loc[pid].vault}
    /\ Return(pid, loc[pid], NoError)
    /\ UNCHANGED <<now, fs, attemptsFile, lockedBy, activeLocks, cx>>

InitJournal ==
    /\ now = Epoch /\ fs = NoFiles /\ attemptsFile = NoFile
    /\ lockedBy = [p \in Paths |-> NoProc] /\ activeLocks = [p \in Procs |-> {}]
    /\ pc = [p \in Procs |-> "idle"] /\ loc = [p \in Procs |-> LocIdle]
    /\ last = NoCall /\ hist = {}
    /\ cx = CxOff
    /\ \E n \in {0, 1} : auditFile = IF n = 0 THEN NoFile ELSE FilledAudit(n)

NextJournal ==
    \/ now < Epoch + MaxStampTicks * TickMs /\ Tick
    \/ \E pid \in Procs, result \in {"success", "failure"} :
          LogRead(pid, "vault_access", <<"vault_access", "A">>, result)
    \/ \E pid \in Procs : LogWrite(pid)

SpecJournal == InitJournal /\ [][NextJournal]_vars

(* ------------------------------------------------------------------------------------ *)
(* SpecEntries: a vault at A and a plain file export.json that the program or anyone     *)
(* else wrote; process 1 runs `add` with the names the user types, process 2 imports     *)
(* export.json to A.                                                                     *)
(* ------------------------------------------------------------------------------------ *)

EntryNames == {"github", "email-work", "", " leading", "a\tb"}

\* the entries objects a plain file can hold: written by exportVault, or by hand
PlainEntries ==
    {<<>>, "github" :> Entry("s3cr3t", "alice")}
    \cup {name :> Entry("hunter2", "") : name \in EntryNames}
    \cup {"github" :> Obj([username |-> Str("alice")])}

\* the constraints on an entry key: not empty, at most 255 bytes, no control character,
\* no white space at either end
WellFormedKey(key) ==
    /\ KeyLength(key) > 0
    /\ KeyBytes(key) <= MaxKeyLength
    /\ \A i \in DOMAIN key : ~IsControl(key[i].c)
    /\ ~IsWhitespace(key[1].c) /\ ~IsWhitespace(key[Len(key)].c)

InitEntries ==
    /\ now = Epoch
    /\ attemptsFile = NoFile
    /\ auditFile = NoFile
    /\ lockedBy = [p \in Paths |-> NoProc]
    /\ activeLocks = [p \in Procs |-> {}]
    /\ pc = [p \in Procs |-> "idle"]
    /\ loc = [p \in Procs |-> LocIdle]
    /\ last = NoCall
    /\ hist = [p \in Procs |-> Undefined]
    /\ cx = CxOff
    /\ \E entries \in PlainEntries :
          fs = [NoFiles EXCEPT
                   !["A"] = InstalledVault["A"],
                   !["export.json"] =
                       File(JsonStringify(Obj([version |-> Str("1.0"),
                                               entries |-> Obj(entries)])), OwnerOnly)]

NextEntries ==
    \/ AddOpen(1, "A", "correct-horse")
    \/ \E key \in EntryNames, overwrite \in BOOLEAN :
          AddEntry(1, key, Entry("hunter2", ""), overwrite)
    \/ SaveLock(1)
    \/ SaveSeal(1, 1, 1)
    \/ SaveWriteBegin(1)
    \/ SaveWriteEnd(1, FALSE)
    \/ SaveRelease(1)
    \/ Import(2, "export.json", "A", "correct-horse", TRUE, 2, 2, 2, 2)

SpecEntries == InitEntries /\ [][NextEntries]_vars

(* ------------------------------------------------------------------------------------ *)
(* changeMasterPassword step by step: loadVault and the clone, saveVault in its steps,   *)
(* the unlink of the backup path.  SpecRotate: process 1 changes the password of the     *)
(* vault at A while process 2 may save it.                                               *)
(* ------------------------------------------------------------------------------------ *)

\* changeMasterPassword up to the lock of saveVault: loadVault with the old password,
\* the clone, and the stamp of saveVault; when loadVault throws, the catch block unlinks
\* the backup path and throws the error on
RekeyStart(pid, path, oldPassword, newPassword) ==
    /\ pc[pid] = "idle"
    /\ LET out == LoadVault(world, pid, path, oldPassword)
           l == [Began("changeMasterPassword", path, path, oldPassword)
                    EXCEPT !.calls = out.calls]
       IN IF Threw(out.error)
          THEN /\ Becomes([out.w EXCEPT !.fs = Unlink(@, BackupPath(path))])
               /\ Exit(pid, [l EXCEPT !.calls = @ \o <<"unlink:backup">>], out.error)
          ELSE /\ Becomes(out.w)
               /\ Goto(pid, [l EXCEPT !.password = newPassword,
                                      !.vault = StampUpdatedAt(
                                                    JsonParse(JsonStringify(out.value)),
                                                    out.w.t)],
                       "saveLock")
    /\ UNCHANGED <<lockedBy, activeLocks, hist, cx>>

\* saveVault has returned or thrown: fs.unlink(backupPath), and the error is thrown on
RekeyCleanup(pid) ==
    /\ pc[pid] = "rekeyCleanup"
    /\ fs' = Unlink(fs, BackupPath(loc[pid].path))
    /\ Exit(pid, [loc[pid] EXCEPT !.calls = @ \o <<"unlink:backup">>], loc[pid].error)
    /\ UNCHANGED <<now, attemptsFile, auditFile, lockedBy, activeLocks, hist, cx>>

InitRotate ==
    /\ InitIdle
    /\ cx = CxOff
    /\ \E entries \in EntryMaps, kept \in BOOLEAN :
          fs = [NoFiles EXCEPT
                   ![BackupPath("A")] = IF kept THEN File(InvalidText(0), OwnerOnly)
                                        ELSE NoFile,
                   !["A"] = SavedVault(Vault(entries, Epoch - TickMs, Epoch - TickMs),
                                       "correct-horse")]

NextRotate ==
    \/ \E oldPassword \in Passwords : RekeyStart(1, "A", oldPassword, "wrong")
    \/ SaveStart(2, "A", "correct-horse", Vault(<<>>, Epoch - TickMs, Epoch))
    \/ \E pid \in Procs : SaveLock(pid)
    \/ \E pid \in Procs : SaveSeal(pid, 2, 2)
    \/ \E pid \in Procs : SaveSealFails(pid)
    \/ \E pid \in Procs : SaveWriteBegin(pid)
    \/ \E pid \in Procs : SaveWriteFails(pid)
    \/ \E pid \in Procs, torn \in BOOLEAN : SaveWriteEnd(pid, torn)
    \/ \E pid \in Procs : SaveRelease(pid)
    \/ RekeyCleanup(1)

SpecRotate == InitRotate /\ [][NextRotate]_vars

(* ------------------------------------------------------------------------------------ *)
(* clipboard.js, and the ways index.js ends the process.  In SpecClipboard cx holds the  *)
(* state of the module and of the system clipboard: clipboard (its text), owner (who     *)
(* placed it), copiedAt (when the program placed it), lastCopiedText, activeTimers and   *)
(* copies (the calls of copyToClipboard so far).  Process 1 is the program; it runs      *)
(* while pc[1] = "idle".                                                                 *)
(* ------------------------------------------------------------------------------------ *)

\* clearAfterMs = 20000
ClearAfterMs == 20000

\* the time that passes in one step of the clock of SpecClipboard
WaitMs == 10000
MaxWaits == 3
MaxCopies == 2

\* the timer copyToClipboard sets: it fires at `due`; `current` is what its callback
\* read from the clipboard, once it has
Timer(text, due) == [text |-> text, due |-> due, current |-> Undefined]

\* copyToClipboard(text): clipboardy.write, lastCopiedText, setTimeout, activeTimers.add
CopyToClipboard(text) ==
    /\ pc[1] = "idle"
    /\ cx.copies < MaxCopies
    /\ cx' = [cx EXCEPT !.clipboard = text, !.owner = "program", !.copiedAt = now,
                        !.lastCopiedText = Str(text),
                        !.activeTimers = @ \cup {Timer(text, now + ClearAfterMs)},
                        !.copies = @ + 1]
    /\ UNCHANGED <<now, fs, attemptsFile, auditFile, lockedBy, activeLocks, pc, loc, last, hist>>

\* another program, or the user, places a text in the clipboard
OtherCopies(text) ==
    /\ cx.clipboard # text
    /\ cx' = [cx EXCEPT !.clipboard = text, !.owner = "other"]
    /\ UNCHANGED <<now, fs, attemptsFile, auditFile, lockedBy, activeLocks, pc, loc, last, hist>>

\* the callback of a timer that is due: const current = await clipboardy.read()
TimerRead(timer) ==
    /\ pc[1] = "idle"
    /\ timer \in cx.activeTimers
    /\ timer.current = Undefined
    /\ now >= timer.due
    /\ cx' = [cx EXCEPT !.activeTimers = (@ \ {timer})
                                           \cup {[timer EXCEPT !.current = Str(cx.clipboard)]}]
    /\ UNCHANGED <<now, fs, attemptsFile, auditFile, lockedBy, activeLocks, pc, loc, last, hist>>

\* the rest of the callback: if (current === text) the clipboard is written empty and
\* lastCopiedText set to null; finally the timer leaves activeTimers
TimerClear(timer) ==
    /\ pc[1] = "idle"
    /\ timer \in cx.activeTimers
    /\ timer.current # Undefined
    /\ cx' = IF timer.current = Str(timer.text)
             THEN [cx EXCEPT !.clipboard = "", !.owner = "program", !.lastCopiedText = Null,
                             !.activeTimers = @ \ {timer}]
             ELSE [cx EXCEPT !.activeTimers = @ \ {timer}]
    /\ UNCHANGED <<now, fs, attemptsFile, auditFile, lockedBy, activeLocks, pc, loc, last, hist>>

\* clearAllClipboardTimers(): every timer is cancelled, and the clipboard is written
\* empty if it holds lastCopiedText
ClearAllClipboardTimers(c) ==
    LET cancelled == [c EXCEPT !.activeTimers = {}, !.lastCopiedText = Null]
    IN IF c.lastCopiedText # Null /\ Str(c.clipboard) = c.lastCopiedText
       THEN [cancelled EXCEPT !.clipboard = "", !.owner = "program"]
       ELSE cancelled

\* 'quit' in the menu: await clearAllClipboardTimers(); process.exit(0)
Quit ==
    /\ pc[1] = "idle"
    /\ cx' = ClearAllClipboardTimers(cx)
    /\ pc' = [pc EXCEPT ![1] = "exited"]
    /\ UNCHANGED <<now, fs, attemptsFile, auditFile, lockedBy, activeLocks, loc, last, hist>>

\* a direct command (`pwcli search`) has returned: main().then(() => process.exit(0));
\* the timers of the process end with it
ExitAfterCommand ==
    /\ pc[1] = "idle"
    /\ cx.copies > 0
    /\ cx' = [cx EXCEPT !.activeTimers = {}]
    /\ pc' = [pc EXCEPT ![1] = "exited"]
    /\ UNCHANGED <<now, fs, attemptsFile, auditFile, lockedBy, activeLocks, loc, last, hist>>

\* time passes, up to the moment the next timer is due
Wait ==
    /\ now < Epoch + MaxWaits * WaitMs
    /\ \A timer \in cx.activeTimers : now < timer.due
    /\ LET dues == {timer.due : timer \in cx.activeTimers} \cap (now + 1)..(now + WaitMs)
       IN now' = IF dues = {} THEN now + WaitMs
                 ELSE CHOOSE d \in dues : \A e \in dues : d <= e
    /\ UNCHANGED <<fs, attemptsFile, auditFile, lockedBy, activeLocks, pc, loc, last, hist, cx>>

InitClipboard ==
    /\ InitWorld
    /\ cx = [clipboard |-> "", owner |-> "other", copiedAt |-> 0, lastCopiedText |-> Null,
             activeTimers |-> {}, copies |-> 0]

NextClipboard ==
    \/ \E text \in {"s3cr3t", "hunter2"} : CopyToClipboard(text)
    \/ \E text \in {"s3cr3t", "notes"} : OtherCopies(text)
    \/ \E timer \in cx.activeTimers : TimerRead(timer)
    \/ \E timer \in cx.activeTimers : TimerClear(timer)
    \/ Quit
    \/ ExitAfterCommand
    \/ Wait

SpecClipboard == InitClipboard /\ [][NextClipboard]_vars

-----------------------------------------------------------------------------
(* The claims *)

\* C7: for every envelope produced by seal(V, P), open with a password other than P,
\* and open with P after any change to the salt, iv, authTag or data field, fails with
\* the decryption error and returns no plaintext.
C7_AnyChangeFails ==
    (/\ cx.stage = "opened"
     /\ \/ cx.P2 # cx.P
        \/ \E f \in EnvelopeFields : Get(cx.env, f) # Get(cx.sealed, f))
    => (/\ ~cx.res.ok
        /\ cx.res.error = Err("Error", MsgDecryptionFailed)
        /\ cx.res.value = Undefined)

\* C8: open(seal(V, P), P) returns a record equal to V (entries and timestamps), and
\* open(path, P) after save(path, P, V) returns V as saved.
C8_RoundTrip ==
    /\ (cx.stage = "opened" /\ cx.env = cx.sealed /\ cx.P2 = cx.P)
           => (cx.res.ok /\ cx.res.value = cx.V)
    /\ (cx.stage = "loaded" /\ last.path = cx.path /\ cx.P2 = cx.P)
           => (cx.res.ok /\ cx.res.value = cx.V)

C8_Witness ==
    /\ cx.stage = "loaded" /\ last.path = cx.path /\ cx.P2 = cx.P
    /\ cx.res.ok
    /\ "github" \in DOMAIN cx.res.value.obj.entries.obj
    /\ "username" \in DOMAIN cx.res.value.obj.entries.obj["github"].obj


\* C1: whenever the persisted throttle state has lockedUntil later than the current time,
\* open fails with the lockout error before the vault file is read, and decryptJson is
\* not invoked during the call, whatever the password.
C1_LockedOutOpenFails ==
    (/\ last.op = "loadVault"
     /\ GetAttempts(last.att0).lockedUntil > last.t0)
    => (/\ Threw(last.error)
        /\ last.error.message = LockedOutMessage(GetAttempts(last.att0).lockedUntil - last.t0)
        /\ \A i \in DOMAIN last.calls : last.calls[i] \notin {"readFile", "decryptJson"})

\* C2 as claimed: after 10 consecutive failed opens with no successful open in between,
\* lockedUntil equals the time of the 10th failure plus the lockout duration.
C2_TenFailuresLock ==
    hist.fails >= maxFailedAttempts
    => (/\ Exists(attemptsFile)
        /\ attemptsFile.data.lockedUntil = hist.failedAt + lockoutDuration)

\* C2 as amended: after 10 consecutive failed opens, each recorded at most 2 * minDelayMs
\* after the one before, lockedUntil equals the time of the latest of them (the 10th)
\* plus the lockout duration.
C2_TenFailuresInWindowLock ==
    hist.streak >= maxFailedAttempts
    => (/\ Exists(attemptsFile)
        /\ attemptsFile.data.lockedUntil = hist.failedAt + lockoutDuration)

C2_Witness ==
    /\ hist.streak = maxFailedAttempts
    /\ last.op = "loadVault" /\ Threw(last.error)
    /\ attemptsFile.data.lockedUntil = now + lockoutDuration

\* C3: if relocate(A, B, password) returns successfully, then afterwards no file exists
\* at A, a file exists at B, and open(B, password) yields the vault that open(A, password)
\* yielded at the start of the call.
C3_MovedVaultOpensAtNewPath ==
    (last.op = "moveVault" /\ pc[last.pid] = "idle" /\ ~Threw(last.error))
    => (/\ ~Exists(fs[last.path])
        /\ Exists(fs[last.newPath])
        /\ ~Threw(LoadVault(world, last.pid, last.newPath, last.password).error)
        /\ LoadVault(world, last.pid, last.newPath, last.password).value = last.value)

C3_Witness ==
    /\ last.op = "moveVault" /\ pc[last.pid] = "idle" /\ ~Threw(last.error)
    /\ last.path = "A" /\ ~Exists(fs["A"]) /\ Exists(fs["B"])
    /\ "email-work" \in DOMAIN last.value.obj.entries.obj

\* C4: if the verification of the copy fails during relocate (the copy does not decrypt,
\* or its size differs from the original's), relocate fails, the file at the old path is
\* what it was before the call, and no file remains at the new path unless deleting it
\* failed, which is only warned about.
C4_FailedVerificationRollsBack ==
    (/\ last.op = "moveVault" /\ pc[last.pid] = "idle"
     /\ \E i \in DOMAIN last.calls : last.calls[i] \in {"throw:loadVault", "throw:size"})
    => (/\ Threw(last.error)
        /\ fs[last.path] = last.fs0[last.path]
        /\ Exists(fs[last.path])
        /\ (Exists(fs[last.newPath]) => last.warned))

C4_Witness ==
    /\ last.op = "moveVault" /\ pc[last.pid] = "idle"
    /\ \E i \in DOMAIN last.calls : last.calls[i] = "throw:loadVault"
    /\ last.error = Err("Error", MsgRolledBackPrefix \o MsgDecryptionFailed)
    /\ fs[last.path] = last.fs0[last.path]
    /\ ~Exists(fs[last.newPath])

\* C5: in every step of relocate that deletes the old file, the verification has been
\* made (the copy opened with the password, the two sizes read) and the copy exists,
\* opens with the password and has the size of the old file.
C5_OldDeletedOnlyAfterVerification ==
    [][\A pid \in Procs :
          (/\ loc[pid].op = "moveVault"
           /\ Exists(fs[loc[pid].path])
           /\ ~Exists(fs'[loc[pid].path]))
          => (/\ pc[pid] = "moveUnlink"
              /\ \E i \in DOMAIN loc[pid].calls : loc[pid].calls[i] = "stat"
              /\ Exists(fs[loc[pid].newPath])
              /\ ~Threw(LoadVault(world, pid, loc[pid].newPath, loc[pid].password).error)
              /\ ~SizesDiffer(fs, loc[pid].path, loc[pid].newPath))]_vars

C5_Witness ==
    /\ last.op = "moveVault" /\ pc[last.pid] = "idle"
    /\ \E i, j \in DOMAIN last.calls :
          i < j /\ last.calls[i] = "stat" /\ last.calls[j] = "unlink:old"
    /\ ~Exists(fs[last.path])

\* C6 as claimed: the file-write steps of two concurrent saves of one path never overlap,
\* whether or not the file exists when they start.
C6_WritesNeverOverlap ==
    \A p, q \in Procs :
        (p # q /\ pc[p] = "saveWriting" /\ pc[q] = "saveWriting") => loc[p].path # loc[q].path

\* C6 as amended: two concurrent saves of one path that both found the file when they
\* took the lock never hold the lock together, so one of them writes only after the
\* other has written and released the lock.
C6_LockedWritesNeverOverlap ==
    \A p, q \in Procs :
        (/\ p # q
         /\ loc[p].op = "saveVault" /\ loc[p].release
         /\ loc[q].op = "saveVault" /\ loc[q].release)
        => loc[p].path # loc[q].path

C6_Witness ==
    \E p, q \in Procs :
        /\ p # q
        /\ pc[q] = "saveWriting" /\ loc[q].release /\ loc[q].retries > 0
        /\ last.op = "saveVault" /\ last.pid = p /\ last.path = loc[q].path
        /\ \E i \in DOMAIN last.calls : last.calls[i] = "release"

\* C9: when open on an existing vault file throws, the error is the generic decryption
\* error, whatever the cause.
C9_SameGenericError ==
    (last.op = "loadVault" /\ Exists(last.fs0[last.path]) /\ Threw(last.error))
    => last.error = Err("Error", MsgDecryptionFailed)

\* C10: every open on an existing vault file that throws has recorded one throttle
\* failure and appended one audit record with result 'failure', and throws the error of
\* decryptJson.
C10_FailureRecordedAndLogged ==
    (last.op = "loadVault" /\ Exists(last.fs0[last.path]) /\ Threw(last.error))
    => (/\ attemptsFile = RecordFailure(last.att0, now)
        /\ AuditLen(auditFile) = AuditLen(last.aud0) + 1
        /\ auditFile.logs[Len(auditFile.logs)].result = "failure"
        /\ last.error = DecryptJson(Envelope(last.fs0[last.path]), last.password).error)

\* C11: a step in which a process ends or is launched leaves the persisted throttle
\* state as it was: the failedAttempts, lastAttempt and lockedUntil the new process
\* reads are those the old one saved.
C11_RestartKeepsThrottleState ==
    [][(\E p \in Procs : pc'[p] # pc[p] /\ "exited" \in {pc[p], pc'[p]})
          => (/\ attemptsFile' = attemptsFile
              /\ GetAttempts(attemptsFile') = GetAttempts(attemptsFile))]_vars

C11_Witness ==
    /\ pc[1] = "exited" /\ pc[2] = "idle"
    /\ last.op = "loadVault" /\ last.pid = 1 /\ Threw(last.error)
    /\ GetAttempts(attemptsFile).failedAttempts = maxFailedAttempts
    /\ GetAttempts(attemptsFile).lockedUntil = now + lockoutDuration
    /\ GetAttempts(last.att0).lockedUntil = 0

\* C12: when recordFailure runs more than 2 * minDelayMs after lastAttempt, failedAttempts
\* becomes 1; when at most 2 * minDelayMs have passed, it becomes the value before plus 1.
C12_FailureCountDecays ==
    (/\ last.op = "loadVault"
     /\ \E i \in DOMAIN last.calls : last.calls[i] = "recordFailure")
    => (/\ Exists(attemptsFile)
        /\ attemptsFile.data.lastAttempt >= last.t0
        /\ attemptsFile.data.lastAttempt <= now
        /\ attemptsFile.data.failedAttempts =
              IF attemptsFile.data.lastAttempt - GetAttempts(last.att0).lastAttempt
                     > 2 * minDelayMs
              THEN 1
              ELSE GetAttempts(last.att0).failedAttempts + 1)

C12_Witness ==
    /\ last.op = "loadVault"
    /\ \E i \in DOMAIN last.calls : last.calls[i] = "recordFailure"
    /\ GetAttempts(last.att0).failedAttempts = 5
    /\ attemptsFile.data.lastAttempt - GetAttempts(last.att0).lastAttempt > 2 * minDelayMs
    /\ attemptsFile.data.failedAttempts = 1

\* C14: after changeMasterPassword(path, old, new) succeeded with old # new, open with
\* the new password returns a vault whose entries and createdAt are those of the vault
\* before the call, and open with the old password fails with the decryption error.
C14_RekeyKeepsEntries ==
    (/\ last.op = "changeMasterPassword" /\ ~Threw(last.error)
     /\ last.password # last.newPassword)
    => LET before == LoadVault(World(last.fs0, last.att0, last.aud0, last.t0),
                               last.pid, last.path, last.password)
           opened == LoadVault(world, last.pid, last.path, last.newPassword)
           refused == LoadVault(world, last.pid, last.path, last.password)
       IN /\ ~Threw(before.error)
          /\ ~Threw(opened.error)
          /\ Get(opened.value, "entries") = Get(before.value, "entries")
          /\ Get(opened.value, "createdAt") = Get(before.value, "createdAt")
          /\ refused.error = Err("Error", MsgDecryptionFailed)
          /\ refused.value = Undefined

C14_Witness ==
    /\ last.op = "changeMasterPassword" /\ ~Threw(last.error)
    /\ last.password = "correct-horse" /\ last.newPassword = "wrong"
    /\ "email-work" \in DOMAIN Get(LoadVault(world, 1, "A", "wrong").value, "entries").obj
    /\ Threw(LoadVault(world, 1, "A", "correct-horse").error)

\* C15: changeMasterPassword leaves the persistent state that loadVault with the old
\* password followed by saveVault with the new one leaves; no file other than the
\* vault file is created, changed or deleted.
C15_RekeyIsOpenThenSave ==
    (last.op = "changeMasterPassword" /\ ~Threw(last.error))
    => LET opened == LoadVault(World(last.fs0, last.att0, last.aud0, last.t0),
                               last.pid, last.path, last.password)
       IN /\ \E rs, ri \in Rand :
                world = SaveVault(opened.w, last.pid, last.path, last.newPassword,
                                  opened.value, rs, ri).w
          /\ \A f \in Files \ {last.path} : fs[f] = last.fs0[f]

\* C13: the throttle state is cleared exactly by successful unlocks: a step in which an
\* open (by loadVault, alone or inside changeMasterPassword) returns ends with no
\* attempts file, and a step that takes the throttle state from recorded failures to
\* none is such a step; a failed open, createVault and a refused call clear nothing.
C13_ClearedExactlyBySuccessfulOpen ==
    [][LET opened == /\ last' # last
                     /\ last'.op \in {"loadVault", "changeMasterPassword"}
                     /\ ~Threw(last'.error)
                     /\ \E i \in DOMAIN last'.calls : last'.calls[i] = "decryptJson"
       IN /\ opened => /\ ~Exists(attemptsFile')
                       /\ GetAttempts(attemptsFile') = GetAttempts(NoFile)
          /\ (/\ GetAttempts(attemptsFile) # GetAttempts(NoFile)
              /\ GetAttempts(attemptsFile') = GetAttempts(NoFile)) => opened]_vars

C13_Witness ==
    /\ last.op = "loadVault" /\ ~Threw(last.error)
    /\ Exists(last.att0) /\ GetAttempts(last.att0).failedAttempts > 0
    /\ ~Exists(attemptsFile)
    /\ hist = NoHist

\* C16: a process holds the lock of a vault path, and tracks it in activeLocks, only
\* between the lock step of saveVault and its finally block: once saveVault has returned
\* or thrown (sealing or writing having failed included), the lock is released and
\* untracked.
C16_LockReleasedOnEveryPath ==
    \A p \in Procs :
        pc[p] \notin {"saveSeal", "saveWrite", "saveWriting", "saveRelease"}
        => /\ \A path \in Paths : lockedBy[path] # p
           /\ activeLocks[p] = {}

C16_Witness ==
    /\ last.op = "saveVault" /\ pc[last.pid] = "exited"
    /\ last.error = Err("Error", MsgWriteFailed)
    /\ \E i \in DOMAIN last.calls : last.calls[i] = "trackLock"
    /\ \E i \in DOMAIN last.calls : last.calls[i] = "release"
    /\ lockedBy[last.path] = NoProc /\ activeLocks[last.pid] = {}

\* C17: a saveVault that finds the lock held by another process ends: it tries the lock
\* again at most 5 times, a call that gives up does so after exactly 5 retries with the
\* lock error, no step it takes while trying changes any file, and it has not written.
C17_ContendedSaveGivesUp ==
    /\ [](\A p \in Procs : loc[p].retries <= LockRetries)
    /\ []((last.op = "saveVault" /\ last.error = Err("Error", MsgLockFailed))
          => \A i \in DOMAIN last.calls : last.calls[i] \notin {"encryptJson", "writeFile"})
    /\ [][\A p \in Procs :
             (pc[p] = "saveLock" /\ <<pc[p], loc[p]>>' # <<pc[p], loc[p]>>)
             => /\ fs' = fs
                /\ pc'[p] = "exited" => /\ loc[p].retries = LockRetries
                                        /\ lockedBy[loc[p].path] \notin {p, NoProc}
                                        /\ last'.error = Err("Error", MsgLockFailed)]_vars
    /\ \A p \in Procs : (pc[p] = "saveLock") ~> (pc[p] # "saveLock")

C17_Witness ==
    /\ last.op = "saveVault" /\ last.error = Err("Error", MsgLockFailed)
    /\ pc[last.pid] = "exited"
    /\ \E q \in Procs : /\ lockedBy["A"] = q /\ q # last.pid
                         /\ pc[q] = "saveSeal"
    /\ fs = last.fs0

\* C18: importVault onto a path where a file exists, overwrite not being set, throws and
\* leaves every vault file as it was.
C18_ImportKeepsExistingVault ==
    (last.op = "importVault" /\ Exists(last.fs0[last.path]) /\ ~last.overwrite)
    => /\ Threw(last.error)
       /\ fs = last.fs0
       /\ Exists(last.fs0[last.plainPath]) /\ last.fs0[last.plainPath].text.j = "object"
          /\ ~InvalidImport(JsonParse(last.fs0[last.plainPath].text))
          => last.error = Wrapped(MsgImportFailedPrefix, Err("Error", MsgVaultExists))

C18_Witness ==
    /\ last.op = "importVault" /\ last.path = "A" /\ ~last.overwrite
    /\ last.error = Wrapped(MsgImportFailedPrefix, Err("Error", MsgVaultExists))
    /\ Exists(fs["A"]) /\ fs["A"] = last.fs0["A"]
    /\ ~Threw(LoadVault(world, 1, "A", "correct-horse").error)

\* C19: the file exportVault wrote for the vault V holds the entries of V, and the vault
\* importVault made from a file opens, with the password given to importVault, to a vault
\* whose entries are those of the file: export then import to a new path keeps the
\* entries.
C19_ExportImportKeepsEntries ==
    /\ (last.op = "exportVault" /\ ~Threw(last.error))
       => LET V == LoadVault(World(last.fs0, last.att0, last.aud0, last.t0),
                             last.pid, last.path, last.password).value
          IN /\ Exists(fs[last.plainPath]) /\ fs[last.plainPath].text.j = "object"
             /\ Get(JsonParse(fs[last.plainPath].text), "entries") = Get(V, "entries")
    /\ (last.op = "importVault" /\ ~Threw(last.error))
       => LET opened == LoadVault(world, last.pid, last.path, last.password)
          IN /\ ~Threw(opened.error)
             /\ Get(opened.value, "entries")
                    = Get(JsonParse(last.fs0[last.plainPath].text), "entries")

C19_Witness ==
    /\ last.op = "importVault" /\ ~Threw(last.error)
    /\ last.path = "B" /\ ~Exists(last.fs0["B"])
    /\ Get(JsonParse(last.fs0["export.json"].text), "sourceVault") = Str("A")
    /\ LET opened == LoadVault(world, 1, "B", last.password)
           source == LoadVault(world, 1, "A", "correct-horse")
       IN /\ ~Threw(opened.error) /\ ~Threw(source.error)
          /\ "email-work" \in DOMAIN Get(opened.value, "entries").obj
          /\ Get(opened.value, "entries") = Get(source.value, "entries")

\* C20: after each call of log the audit file holds at most maxEntries (1000) records:
\* the record of the call is the last one, the records before it are those the file held,
\* in their order, and the ones missing are the oldest, as many as went over the cap.
C20_AuditKeepsNewest ==
    last.op = "log"
    => LET old == IF Exists(last.aud0) THEN last.aud0.logs ELSE <<>>
           new == auditFile.logs
           dropped == Len(old) + 1 - Len(new)
       IN /\ Len(new) <= maxEntries
          /\ dropped = IF Len(old) + 1 > maxEntries THEN Len(old) + 1 - maxEntries ELSE 0
          /\ new[Len(new)] = last.value
          /\ \A i \in 1..(Len(new) - 1) : new[i] = old[i + dropped]

C20_Witness ==
    /\ last.op = "log" /\ Exists(last.aud0)
    /\ Len(last.aud0.logs) = maxEntries /\ Len(auditFile.logs) = maxEntries
    /\ auditFile.logs[1] = last.aud0.logs[2]
    /\ auditFile.logs[1] # last.aud0.logs[1]
    /\ auditFile.logs[maxEntries].result = "failure"
    /\ Cardinality(Appended(auditFile)) = 2

\* C21: log returns normally whatever the state of the audit file, and createVault,
\* loadVault, exportVault and importVault end as they would with no audit file to begin
\* with (where logging succeeds): same error or value, same vault files, same attempts
\* file, same instant.
C21_AuditFailuresSwallowed ==
    /\ last.op = "log" => ~Threw(last.error)
    /\ last.op \in {"createVault", "loadVault", "exportVault", "importVault"}
       => \E rs, ri \in Rand :
             LET out == Replayed(last, NoFile, rs, ri)
             IN /\ last.error = out.error /\ last.value = out.value
                /\ fs = out.w.fs /\ attemptsFile = out.w.att /\ now = out.w.t

C21_Witness ==
    /\ last.op = "importVault" /\ ~Threw(last.error)
    /\ last.aud0.kind = "nonarray" /\ auditFile = last.aud0
    /\ Exists(fs["B"]) /\ ~Exists(last.fs0["B"])
    /\ \E i \in DOMAIN last.calls : last.calls[i] = "log:success"

\* C22: every vault operation that has ended has appended to the audit file at least one
\* record, made by its process, whose details name the path it worked on.
C22_EveryOperationLogged ==
    last.op \notin {"none", "log"}
    => \E i \in (AuditLen(last.aud0) + 1)..AuditLen(auditFile) :
          /\ auditFile.logs[i].pid = last.pid
          /\ \E j \in DOMAIN auditFile.logs[i].details :
                auditFile.logs[i].details[j] = last.path

\* C23 as claimed: validateEntryKey accepts a key exactly when it is not empty, takes at
\* most 255 bytes, holds no control character and neither starts nor ends with white
\* space.
C23_AcceptsExactlyWellFormedKeys ==
    last.op = "validateEntryKey"
    => (last.value.valid
        <=> /\ KeyLength(last.key) > 0
            /\ KeyBytes(last.key) <= 255
            /\ \A i \in DOMAIN last.key : ~IsControl(last.key[i].c)
            /\ ~IsWhitespace(last.key[1].c) /\ ~IsWhitespace(last.key[Len(last.key)].c))

\* C23 as amended: validateEntryKey accepts a key exactly when it is not empty, is at
\* most 255 UTF-16 code units long, holds no NUL, line feed or carriage return, and
\* neither starts nor ends with white space.
C23_AcceptsKeysByLengthAndLineBreaks ==
    last.op = "validateEntryKey"
    => (last.value.valid
        <=> /\ KeyLength(last.key) > 0
            /\ KeyLength(last.key) <= 255
            /\ \A i \in DOMAIN last.key : last.key[i].c \notin {"NUL", "LF", "CR"}
            /\ ~IsWhitespace(last.key[1].c) /\ ~IsWhitespace(last.key[Len(last.key)].c))

C23_Witness ==
    /\ last.op = "validateEntryKey" /\ last.value.valid
    /\ KeyLength(last.key) = 255 /\ KeyBytes(last.key) > 255
    /\ \E i \in DOMAIN last.key : last.key[i].c = "BEL"


\* C24: nukeVault overwrites the whole file with random bytes of its stat size, then with
\* zeros of the same size, and only then unlinks it: while the zero write is pending the
\* file holds the random bytes, while the unlink is pending it holds the zeros, the file
\* is gone only after both overwrites, and after a successful nuke no file is at the path
\* (the command that was last to finish is judged before the next one starts).
C24_NukeOverwritesThenUnlinks ==
    /\ \A pid \in Procs :
          LET l == loc[pid]
              n == Len(l.calls)
          IN /\ pc[pid] = "nukeRandom"
                => /\ fs[l.path] = l.fs0[l.path]
                   /\ l.size = Size(l.fs0[l.path])
             /\ pc[pid] = "nukeZero"
                => /\ Exists(fs[l.path])
                   /\ \E r \in Rand : fs[l.path].text = Bytes(Size(l.fs0[l.path]), r)
                   /\ Size(fs[l.path]) = Size(l.fs0[l.path])
             /\ pc[pid] = "nukeUnlink"
                => /\ Exists(fs[l.path])
                   /\ fs[l.path].text = Bytes(Size(l.fs0[l.path]), 0)
                   /\ Size(fs[l.path]) = Size(l.fs0[l.path])
             /\ (pc[pid] \in {"nukeVerify", "nukeType", "nukeConfirm", "nukeStat",
                              "nukeRandom", "nukeZero", "nukeUnlink"}
                 /\ Exists(l.fs0[l.path]))
                => Exists(fs[l.path])
             /\ pc[pid] = "nukeConfig"
                => /\ ~Exists(fs[l.path])
                   /\ n >= 4
                   /\ SubSeq(l.calls, n - 3, n)
                        = <<"stat", "writeFile:random", "writeFile:zero", "unlink">>
    /\ (last.op = "handleNuke" /\ pc[last.pid] = "exited")
       => (~Threw(last.error) /\ last.confirmed /\ ~Exists(fs[last.path]))
    /\ (/\ last.op = "handleNuke" /\ pc[last.pid] \in {"idle", "exited"}
        /\ Exists(last.fs0[last.path]) /\ ~Exists(fs[last.path]))
       => \E i \in DOMAIN last.calls :
             /\ i + 3 \in DOMAIN last.calls
             /\ SubSeq(last.calls, i, i + 3)
                  = <<"stat", "writeFile:random", "writeFile:zero", "unlink">>

C24_Witness ==
    /\ last.op = "handleNuke" /\ ~Threw(last.error) /\ last.confirmed
    /\ Exists(last.fs0["A"]) /\ Size(last.fs0["A"]) > 0
    /\ ~Exists(fs["A"])
    /\ pc[1] = "exited"

\* C25: the nuke command reaches nukeVault only after loadVault opened the vault with
\* the typed password, then "NUKE" was typed exactly, then the final confirmation was
\* accepted, in that order; while any of the three is pending, and after a command in
\* which one of them failed or was declined, the vault file and the config file are as
\* they were when the command started.
C25_NukeOnlyAfterThreeChecks ==
    /\ \A pid \in Procs :
          LET l == loc[pid]
              opened == LoadVault(World(l.fs0, l.att0, l.aud0, l.t0), pid, l.path, l.password)
          IN /\ pc[pid] \in {"nukeStat", "nukeRandom", "nukeZero", "nukeUnlink", "nukeConfig"}
                => /\ ~Threw(opened.error)
                   /\ l.typed = "NUKE"
                   /\ l.confirmed
                   /\ \E i, j, k \in DOMAIN l.calls :
                         /\ i < j /\ j < k
                         /\ l.calls[i] = "decryptJson"
                         /\ l.calls[j] = "promptInput"
                         /\ l.calls[k] = "promptConfirm"
                         /\ \A m \in DOMAIN l.calls :
                               l.calls[m] \in {"stat", "writeFile:random", "writeFile:zero",
                                               "unlink"} => k < m
             /\ pc[pid] \in {"nukeVerify", "nukeType", "nukeConfirm"}
                => /\ fs[l.path] = l.fs0[l.path]
                   /\ fs[CONFIG_FILE] = l.fs0[CONFIG_FILE]
    /\ LET opened == LoadVault(World(last.fs0, last.att0, last.aud0, last.t0),
                               last.pid, last.path, last.password)
       IN (/\ last.op = "handleNuke" /\ pc[last.pid] \in {"idle", "exited"}
           /\ \/ Threw(opened.error)
              \/ last.typed # "NUKE"
              \/ ~last.confirmed)
          => /\ fs[last.path] = last.fs0[last.path]
             /\ fs[CONFIG_FILE] = last.fs0[CONFIG_FILE]

C25_Witness ==
    /\ last.op = "handleNuke" /\ ~Threw(last.error)
    /\ \E i \in DOMAIN last.calls : last.calls[i] = "log:success"
    /\ last.typed = "NUKE" /\ ~last.confirmed
    /\ Exists(fs["A"]) /\ Exists(fs[CONFIG_FILE])
    /\ last.path = "A"


\* C26: every seal draws its salt and its nonce anew: of the envelopes that createVault,
\* saveVault, changeMasterPassword and importVault have written, no two hold the same
\* salt or the same iv, and none holds the salt or the iv of the envelope it replaced.
C26_EverySealDrawsAnew ==
    \A i \in DOMAIN hist.written :
       LET e == hist.written[i]
       IN /\ e.sealing # Undefined
          /\ \A j \in DOMAIN hist.written :
                j # i => /\ hist.written[j].sealing.salt # e.sealing.salt
                         /\ hist.written[j].sealing.iv # e.sealing.iv
          /\ e.over # Undefined => /\ e.over.salt # e.sealing.salt
                                   /\ e.over.iv # e.sealing.iv

C26_Witness ==
    /\ last.op = "importVault" /\ ~Threw(last.error)
    /\ Len(hist.written) >= 3
    /\ \E i \in DOMAIN hist.written : hist.written[i].over # Undefined
    /\ Sealing(fs["A"]) # Sealing(last.fs0["A"])


\* C27: a save stamps the vault with the time at which saveVault was called and leaves
\* createdAt alone; every vault on disk has createdAt <= updatedAt; and updatedAt never
\* decreases from one save to the next: a save that is about to write holds an updatedAt
\* that is not older than the one of the vault it overwrites.
C27_UpdatedAtNeverDecreases ==
    /\ \A path \in Paths :
          Persisted(fs[path]).ok
          => StampOf(Persisted(fs[path]).value, "createdAt")
                <= StampOf(Persisted(fs[path]).value, "updatedAt")
    /\ \A p \in Procs :
          pc[p] \in {"saveLock", "saveSeal", "saveWrite", "saveWriting", "saveRelease"}
          => /\ StampOf(loc[p].vault, "updatedAt") = loc[p].t0
             /\ StampOf(loc[p].vault, "createdAt") = Epoch - TickMs
             /\ (pc[p] = "saveWrite" /\ Persisted(fs[loc[p].path]).ok)
                => StampOf(Persisted(fs[loc[p].path]).value, "updatedAt")
                      <= StampOf(loc[p].vault, "updatedAt")


\* C28: when encryptJson or decryptJson ends, by returning or by throwing, every buffer
\* into which it put the derived key, the serialized plaintext or decrypted output holds
\* zeros only.
C28_SensitiveBuffersWiped ==
    last.op \in {"encryptJson", "decryptJson"}
    => \A b \in last.value :
          b.kind \in {"key", "plaintext", "decrypted"} => b.atExit = SecureWipe(b.atExit)


\* C29: while the throttle state holds a recorded attempt, no process begins to decrypt
\* less than minDelayMs after it: in every step in which a loadVault goes on from
\* waitIfNeeded to decryptJson, the attempt on record lies at least minDelayMs back.
C29_NoDecryptionWithinMinDelay ==
    [][\A p \in Procs :
          (/\ pc[p] = "openWait" /\ pc'[p] # "openWait"
           /\ \E i \in DOMAIN last'.calls : last'.calls[i] = "decryptJson"
           /\ Exists(attemptsFile)
           /\ GetAttempts(attemptsFile).lastAttempt # 0)
          => now - GetAttempts(attemptsFile).lastAttempt >= minDelayMs]_vars


\* C30: the file a createVault, saveVault, moveVault or importVault that has returned
\* wrote is owner-only (mode 0600), and so are the throttle file and the audit file once
\* a call has written them, whatever the mode of a file that was at the path before.
C30_WrittenFilesOwnerOnly ==
    /\ (/\ last.op \in {"createVault", "saveVault", "importVault", "moveVault"}
        /\ ~Threw(last.error)
        /\ Exists(fs[last.newPath]))
       => /\ last.op = "moveVault" => fs[last.newPath].mode = OwnerOnly
          /\ (last.op # "moveVault" /\ Exists(fs[last.path]))
             => fs[last.path].mode = OwnerOnly
    /\ (last.op # "none" /\ Exists(attemptsFile) /\ attemptsFile # last.att0)
       => attemptsFile.mode = OwnerOnly
    /\ (last.op # "none" /\ auditFile.kind = "file" /\ auditFile # last.aud0)
       => auditFile.mode = OwnerOnly


\* C31: a moveVault that finds a file at the new path throws without copying, and no
\* step of moveVault overwrites or deletes a file that is at the new path and is not its
\* own copy: the copy step leaves a file it finds there as it is, and so does the
\* rollback when the file there is no longer the copy it made.
C31_DestinationNeverOverwritten ==
    /\ []((last.op = "moveVault" /\ last.error = Err("Error", MsgDestExists))
          => \A i \in DOMAIN last.calls : last.calls[i] # "copyFile")
    /\ [][\A pid \in Procs :
             /\ (pc[pid] = "moveCopy" /\ pc'[pid] # "moveCopy"
                 /\ Exists(fs[loc[pid].newPath]))
                => fs'[loc[pid].newPath] = fs[loc[pid].newPath]
             /\ (pc[pid] = "moveRollback" /\ pc'[pid] # "moveRollback"
                 /\ Exists(fs[loc[pid].newPath])
                 /\ Envelope(fs[loc[pid].newPath]) # Envelope(fs[loc[pid].path]))
                => fs'[loc[pid].newPath] = fs[loc[pid].newPath]]_vars


\* C32: a failure to read or write the attempts file never makes an open fail: with an
\* attempts file that cannot be read or written, loadVault ends as it would had
\* waitIfNeeded returned at once, with the error of the steps after it or with none
C32_ThrottleFaultsNeverFailOpen ==
    (/\ last.op = "loadVault"
     /\ last.att0.kind \in UnreadableAttempts \cup {"readonly"})
    => last.error = LoadVaultRead(World(last.fs0, last.att0, last.aud0, last.t0),
                                  last.pid, last.path, last.password).error


\* C33: while a process holds the lock on a path, the file at that path is changed by
\* steps of that process only
C33_WrittenUnderLockOnly ==
    [][\A path \in Paths :
          (fs'[path] # fs[path] /\ lockedBy[path] # NoProc)
          => \/ pc'[lockedBy[path]] # pc[lockedBy[path]]
             \/ last' # last /\ last'.pid = lockedBy[path]]_vars


\* C34: once the opens have ended, all of them inside the failure window (no two
\* attempts more than 2 * minDelayMs apart), the persisted failedAttempts is the number
\* of decryptions that failed
C34_NoFailureLost ==
    (/\ \A p \in Procs : pc[p] = "idle"
     /\ now <= Epoch + 2 * minDelayMs)
    => GetAttempts(attemptsFile).failedAttempts = hist.fails


\* C35: a save replaces the whole file with the vault it was passed: when the write of a
\* save ends, the file decrypts to exactly that vault, whatever it held before; and a
\* file that no save is writing decrypts to the vault it held at first or to a vault
\* one of the processes passed to saveVault, never to a mix of them
C35_SaveReplacesWholeFile ==
    /\ [][\A pid \in Procs :
             (pc[pid] = "saveWriting" /\ pc'[pid] = "saveRelease"
              /\ ~Threw(loc'[pid].error))
             => /\ Persisted(fs'[loc[pid].path]).ok
                /\ Persisted(fs'[loc[pid].path]).value = hist[pid]]_vars
    /\ []((Writers("A") = {} /\ Persisted(fs["A"]).ok)
          => \/ Persisted(fs["A"]).value \in Vaults
             \/ \E p \in Procs : Persisted(fs["A"]).value = hist[p])

\* process 1 added 'github' and saved, then process 2, which had opened the vault before
\* that save, added 'email-work' and wrote: the file holds the vault of process 2, with
\* no entry 'github'
C35_Witness ==
    /\ pc[1] = "exited" /\ last.pid = 1 /\ last.op = "handleAdd" /\ ~Threw(last.error)
    /\ hist[1] # Undefined /\ hist[2] # Undefined
    /\ "github" \in DOMAIN hist[1].obj.entries.obj
    /\ "github" \notin DOMAIN hist[2].obj.entries.obj
    /\ pc[2] = "saveRelease" /\ ~Threw(loc[2].error)
    /\ Persisted(fs["A"]).ok
    /\ Persisted(fs["A"]).value = hist[2]
    /\ "github" \notin DOMAIN Persisted(fs["A"]).value.obj.entries.obj


\* C36: when importVault has failed and no other process has written the destination,
\* the file at the destination is what it was when the call began: unchanged if it
\* existed, absent if not
C36_FailedImportLeavesDestination ==
    (/\ last.op = "importVault" /\ last.pid = 1 /\ Threw(last.error)
     /\ pc[1] = "exited"
     /\ pc[2] \in {"idle", "saveLock", "saveSeal", "saveWrite"})
    => fs[last.path] = last.fs0[last.path]


\* C37: once the log calls have returned, the audit file (far below its cap of maxEntries
\* here) holds the record of every one of them
C37_NoRecordLost ==
    (\A p \in Procs : pc[p] = "idle")
    => \A e \in hist : \E i \in 1..AuditLen(auditFile) : auditFile.logs[i] = e


\* C38: in every vault the program has written, every entry key is well formed and every
\* entry is an object with a password
C38_PersistedEntriesWellFormed ==
    \A path \in Paths :
       Persisted(fs[path]).ok
       => LET entries == Get(Persisted(fs[path]).value, "entries")
          IN /\ entries.ty = "object"
             /\ \A name \in DOMAIN entries.obj :
                   /\ WellFormedKey(Spelled(name))
                   /\ entries.obj[name].ty = "object"
                   /\ Get(entries.obj[name], "password").ty = "string"


\* C39: when changeMasterPassword has failed because the old password was wrong or
\* because the lock was not acquired, and no other process has written the vault file,
\* the file is what it was when the call began and opens with the password it was
\* saved with, to the same vault
C39_FailedRekeyLeavesVault ==
    (/\ last.op = "changeMasterPassword" /\ last.pid = 1 /\ pc[1] = "exited"
     /\ last.error \in {Err("Error", MsgDecryptionFailed), Err("Error", MsgLockFailed)}
     /\ pc[2] \in {"idle", "saveLock", "saveSeal", "saveWrite"})
    => /\ fs[last.path] = last.fs0[last.path]
       /\ Persisted(fs[last.path]).ok
       /\ Persisted(fs[last.path]) = Persisted(last.fs0[last.path])

\* the change failed on the lock, which process 2 holds and has not yet written under
C39_Witness ==
    /\ last.op = "changeMasterPassword" /\ last.pid = 1 /\ pc[1] = "exited"
    /\ last.error = Err("Error", MsgLockFailed)
    /\ lockedBy["A"] = 2 /\ pc[2] \in {"saveSeal", "saveWrite"}
    /\ Persisted(fs["A"]).ok


\* C40: the program empties the clipboard only when it holds a text the program placed
\* there; and a text the program placed is in the clipboard only while the program runs
\* and for at most 20 s after copyToClipboard
C40_ClipboardClearedInTime ==
    /\ [][(cx'.clipboard = "" /\ cx.clipboard # "") => cx.owner = "program"]_vars
    /\ []((cx.owner = "program" /\ cx.clipboard # "")
          => (pc[1] = "idle" /\ now <= cx.copiedAt + ClearAfterMs))

====
